---- MODULE Spec2Model ----
(***************************************************************************)
(* Model of the BMR HC64 protocol client (custom_components/bmr/client.py).*)
(*                                                                         *)
(* The state is the client's override map, the contents of the persisted   *)
(* overrides store, the caches of the @cached read operations, the         *)
(* settings of the controller that the write operations change, and the    *)
(* wall clock.  Temperatures are integers in tenths of a degree,           *)
(* timestamps are integer seconds.                                         *)
(*                                                                         *)
(* The client's operations are coroutines on one event loop.  `loop' holds *)
(* the coroutines in flight.  A call of an operation is one action: it     *)
(* runs the coroutine to its first await (the /wholeRoom read, the login   *)
(* and POST of a command, the store's save, the operation behind a cache)  *)
(* and leaves it suspended there.  The end of an await is another action:  *)
(* the environment chooses the device's answer, the outcome of the command *)
(* or of the save, and the coroutine runs to its next await or to its end. *)
(* Between two such steps other coroutines may be called and resumed, and  *)
(* the clock may advance.                                                  *)
(*                                                                         *)
(* `last' records what the operation that ended most recently did (its     *)
(* arguments, the override entry it found, the requests it sent in order,  *)
(* the record it returned) until the caller takes the result (Return).     *)
(*                                                                         *)
(* `data' is what the coordinator holds of its last update that            *)
(* succeeded (coordinator.data), which the climate entities read.          *)
(* A request is answered at the instant the controller serves it: the      *)
(* controller's settings change, and the coroutine that sent it goes on,   *)
(* in one step.                                                            *)
(***************************************************************************)
EXTENDS Integers, Sequences, FiniteSets, TLC

\* Python's None for the Optional fields (no temperature or timestamp of the
\* model takes this value).
None == -1000

\* client.py:30
TEMPERATURE_OVERRIDE_CHECK_DELAY == 300

\* ---- bounds of the model ----
\* The clock advances in steps of TickStep seconds up to MaxTime.
TickStep == 150
MaxTime == 450

Circuits == {0, 1}
\* the circuits whose override callers set and remove; the other circuit
\* carries an override loaded at construction and is only read
Managed == {0}
\* override temperatures a caller may ask for.  These and the device's are
\* whole degrees, which a float holds exactly: their differences are the
\* offsets the client computes
Temps == {210}
\* durations a caller may ask for (None: indefinite)
Durations == {None, TickStep}
\* what the device may report in the target and user-offset fields of
\* /wholeRoom (None: the field does not parse as a number)
DevTargets == {None, 200, 220}
DevOffsets == {None, 20}
\* how a POST to /saveManualTemp may end: answered with status 200, answered
\* with another status, or never sent because the login before it failed
Outcomes == {"ok", "http_error", "auth_error"}

VARIABLES now, overrides, store, hasStore, last, cache, device, loop, data

vars == <<now, overrides, store, hasStore, last, cache, device, loop, data>>

\* ---- TemperatureOverride ----

\* TemperatureOverride.__init__
TemperatureOverride(temperature, created_at, stop_at) ==
    [temperature |-> temperature,
     created_at  |-> created_at,
     last_set    |-> created_at,
     stop_at     |-> stop_at,
     disabled_at |-> None]

\* TemperatureOverride.serialize
serialize(o) ==
    [temperature |-> o.temperature,
     created_at  |-> o.created_at,
     stop_at     |-> o.stop_at]

\* the payload handed to async_save: dict((k, v.serialize()) ...)
serializeAll(ov) == [k \in DOMAIN ov |-> serialize(ov[k])]

\* the value `last.pre' takes when the circuit had no entry
NoOverride ==
    [temperature |-> None, created_at |-> None, last_set |-> None,
     stop_at |-> None, disabled_at |-> None]

EntryOf(ov, c) == IF c \in DOMAIN ov THEN ov[c] ELSE NoOverride

\* self.overrides[circuit_id] = o
Put(ov, c, o) == [k \in DOMAIN ov \cup {c} |-> IF k = c THEN o ELSE ov[k]]

\* del self.overrides[circuit_id]
Del(ov, c) == [k \in DOMAIN ov \ {c} |-> ov[k]]

\* ---- requests, in the order an operation sends them ----

Ev(e, c, t, off, ok) == [e |-> e, c |-> c, t |-> t, off |-> off, ok |-> ok]
\* POST /wholeRoom (with its retries); ok: a response was decoded
ReadEv(c, ok) == Ev("read", c, None, None, ok)
\* POST /saveManualTemp for new target t, sent as offset off; ok: status 200
CmdEv(c, t, off, ok) == Ev("cmd", c, t, off, ok)
\* the login before a command failed (authenticate raised): nothing is posted
AuthFailEv(c) == Ev("auth_error", c, None, None, FALSE)
\* self.overrides[c] = TemperatureOverride(...)
PutEv(c) == Ev("put", c, None, None, TRUE)
\* del self.overrides[c]
DelEv(c) == Ev("del", c, None, None, TRUE)
\* overrides_store.async_save(...); ok: it did not raise
SaveEv(ok) == Ev("save", None, None, None, ok)
\* the warning storeOverrides logs when there is no store
WarnEv == Ev("warning", None, None, None, TRUE)

\* ---- device responses ----

Response(ok, target, user_offset) ==
    [ok |-> ok, target |-> target, user_offset |-> user_offset]

NoRet == [target_temperature |-> None, target_temperature_raw |-> None,
          user_offset |-> None]

\* ---- texts ----

\* A text is a sequence of characters, each a string of one character; Nul
\* stands for the character U+0000.
Nul == "\\0"

\* str.rstrip() of a name padded with blanks
RECURSIVE rstrip(_)
rstrip(chars) ==
    IF chars # <<>> /\ chars[Len(chars)] = " "
    THEN rstrip(SubSeq(chars, 1, Len(chars) - 1))
    ELSE chars

\* str.strip(): the blanks at both ends removed (U+0000 is not a blank)
RECURSIVE strip(_)
strip(chars) ==
    IF chars # <<>> /\ Head(chars) = " " THEN strip(Tail(chars)) ELSE rstrip(chars)

\* the width of a name in the response of /listOfRooms (client.py:136)
NAME_WIDTH == 13

\* [text[i: i + 13].strip() for i in range(0, len(text), 13)]
RECURSIVE circuitNames(_)
circuitNames(text) ==
    IF text = <<>> THEN <<>>
    ELSE IF Len(text) <= NAME_WIDTH THEN <<strip(text)>>
    ELSE <<strip(SubSeq(text, 1, NAME_WIDTH))>>
         \o circuitNames(SubSeq(text, NAME_WIDTH + 1, Len(text)))

\* sep.join(parts)
RECURSIVE join(_, _)
join(sep, parts) ==
    IF parts = <<>> THEN <<>>
    ELSE IF Len(parts) = 1 THEN parts[1]
    ELSE parts[1] \o sep \o join(sep, Tail(parts))

\* ---- the transport: login, POST, decode, with the retry and cache wrappers ----

\* the element of a one-element set; {e(x) : x \in {v}} computes v once
The(S) == CHOOSE x \in S : TRUE

\* max_tries of the backoff.on_exception decorators (client.py:74, 111, 200,
\* 452, 527, 749, 902)
BACKOFF_MAX_TRIES == 3

\* client.py:23
CACHE_DEFAULT_TTL == 10

\* authenticate() under its decorator, from its k-th try on.  logins[k] is how
\* the k-th POST of the login ends.  An AuthException is an Exception, so the
\* decorator retries it like any other; the last try's exception is re-raised.
RECURSIVE authenticateFrom(_, _)
authenticateFrom(logins, k) ==
    IF logins[k] = "ok"
    THEN [posts |-> k, raised |-> "none"]
    ELSE IF k < BACKOFF_MAX_TRIES
    THEN authenticateFrom(logins, k + 1)
    ELSE [posts |-> k,
          raised |-> IF logins[k] = "rejected" THEN "AuthException" ELSE "Exception"]

\* authenticate(): the number of login POSTs and the exception raised, if any
authenticate(logins) == authenticateFrom(logins, 1)

\* the answer to a POST other than the login: the status, and the body, which
\* is empty, a single NUL, or data carrying the payload v
Post(status, body, v) == [status |-> status, body |-> body, v |-> v]

\* no answer
NoPost == Post(None, "empty", None)

\* what the environment does during one run of an operation's body: how the
\* login POSTs end and how the request is answered
Attempt(logins, post) == [logins |-> logins, post |-> post]

\* the read operations decorated with backoff.on_exception
Retried ==
    {"getNumCircuits", "getCircuit", "getSummerMode", "getLowMode", "getHDO",
     "getVentilation"}

\* the operations decorated with @cached(LRUCache(maxsize=1)): no expiry
CachedForever == {"getUniqueId", "getNumCircuits", "getCircuitNames"}

\* the read operations decorated with @cached(TTLCache(..., ttl=CACHE_DEFAULT_TTL))
CachedWithTTL ==
    {"getSchedule", "getSummerMode", "getLowMode", "getHDO", "getVentilation",
     "getSummerModeAssignments"}

\* the value an operation decodes from a response with status 200, or the
\* exception the decoding raises
decode(op, arg, post) ==
    CASE op = "getNumCircuits" ->
           \* int(text): ValueError on an empty or NUL body
           IF post.body = "data"
           THEN [raised |-> "none", value |-> post.v]
           ELSE [raised |-> "Exception", value |-> None]
      [] op = "getCircuitNames" ->
           \* the names in the 13-character slots of the text v: no name
           \* for an empty body, and for a NUL a name that is the NUL
           [raised |-> "none",
            value  |-> circuitNames(IF post.body = "empty" THEN <<>>
                                    ELSE IF post.body = "nul" THEN <<Nul>>
                                    ELSE post.v)]
      [] op = "getHDO" ->
           \* text == "1"
           [raised |-> "none", value |-> (post.body = "data" /\ post.v = 1)]
      [] op = "getSummerModeAssignments" ->
           \* [bool(int(x)) for x in list(text)]: no flag for an empty body,
           \* an exception for a NUL
           IF post.body = "nul"
           THEN [raised |-> "Exception", value |-> None]
           ELSE [raised |-> "none",
                 value  |-> IF post.body = "empty" THEN <<>> ELSE post.v]
      [] op = "getSummerMode" ->
           \* not bool(int(val)), False on ValueError
           [raised |-> "none", value |-> (post.body = "data" /\ post.v = 0)]
      [] OTHER ->
           \* getSchedule, getLowMode, getVentilation, getCircuit: the pattern
           \* does not match (or int() fails on) an empty or NUL body
           IF post.body = "data"
           THEN [raised |-> "none", value |-> post.v]
           ELSE [raised |-> "Exception", value |-> None]

\* one run of the body of a read operation: authenticate, POST, check the
\* status, decode.  logins and posts count the POSTs sent; blank tells that
\* the body received was empty or a single NUL.
remoteCall(op, arg, att) ==
    LET a == authenticate(att.logins)
    IN  IF a.raised # "none"
        THEN [logins |-> a.posts, posts |-> 0, raised |-> a.raised,
              value |-> None, blank |-> FALSE]
        ELSE IF att.post.status # 200
        THEN [logins |-> a.posts, posts |-> 1, raised |-> "Exception",
              value |-> None, blank |-> FALSE]
        ELSE LET d == decode(op, arg, att.post)
             IN  [logins |-> a.posts, posts |-> 1, raised |-> d.raised,
                  value |-> d.value, blank |-> att.post.body # "data"]

\* a slip: the decorator is missing, so the body runs once
MaxTries_NoRetry(op) == 1

\* how often the body of a read operation is run at most
MaxTries(op) == IF op \in Retried THEN BACKOFF_MAX_TRIES ELSE 1

Max(a, b) == IF a >= b THEN a ELSE b

\* what a call has done so far: the runs of the body and how many of them
\* raised, the login POSTs (in all, and the most in one run), the request
\* POSTs, the blank bodies received, and the outcome of the latest run
NoRuns ==
    [tries |-> 0, failed |-> 0, logins |-> 0, maxLogins |-> 0, posts |-> 0, blanks |-> 0,
     raised |-> "none", value |-> None, blank |-> FALSE, hit |-> FALSE]

\* backoff.on_exception(backoff.expo, Exception, max_tries) around the body:
\* run k uses tries[k]; a run that returns ends the call, a run that raises is
\* followed by another until max_tries runs were made, and then the last
\* exception is re-raised
\* the counts after one more run r of the body, its k-th
Counted(acc, k, r) ==
    [tries     |-> k,
     failed    |-> acc.failed + (IF r.raised # "none" THEN 1 ELSE 0),
     logins    |-> acc.logins + r.logins,
     maxLogins |-> Max(acc.maxLogins, r.logins),
     posts     |-> acc.posts + r.posts,
     blanks    |-> acc.blanks + (IF r.blank THEN 1 ELSE 0),
     raised    |-> r.raised,
     value     |-> r.value,
     blank     |-> r.blank,
     hit       |-> FALSE]

RECURSIVE retryFrom(_, _, _, _, _)
retryFrom(op, arg, tries, k, acc) ==
    The({IF acc1.raised = "none" \/ k >= MaxTries(op)
         THEN acc1
         ELSE retryFrom(op, arg, tries, k + 1, acc1) :
            acc1 \in {Counted(acc, k, remoteCall(op, arg, tries[k]))}})

\* a read operation below its cache
retried(op, arg, tries) == retryFrom(op, arg, tries, 1, NoRuns)

\* the schedules a caller may ask for
ScheduleIds == {0, 1}

\* the cached calls of the model
CacheKeys ==
    {<<op, None>> : op \in {"getUniqueId", "getNumCircuits", "getCircuitNames", "getHDO",
                            "getVentilation", "getSummerMode", "getLowMode",
                            "getSummerModeAssignments"}}
    \cup {<<"getSchedule", i>> : i \in ScheduleIds}

\* the key of a cached call: the operation and its argument (None without)
CacheKey(op, arg) == <<op, arg>>

\* a key without an entry
NotCached == [has |-> FALSE]

\* the caches of a client that has made no call yet
NoCache == [k \in CacheKeys |-> NotCached]

\* a slip: an entry is served for ttl seconds and one more instant
Fresh_Inclusive(entry, op, t) ==
    /\ entry.has
    /\ op \in CachedWithTTL => t <= entry.at + CACHE_DEFAULT_TTL

\* cache[k] finds a value: an LRU entry always, a TTL entry while
\* timer() < expires
Fresh(entry, op, t) ==
    /\ entry.has
    /\ op \in CachedWithTTL => t < entry.at + CACHE_DEFAULT_TTL


\* asyncache.cached, the lookup: cache[k] of a fresh entry is returned
\* without a call of the operation
lookup(ch, t, op, arg) ==
    LET entry == ch[CacheKey(op, arg)]
    IN  [hit |-> Fresh(entry, op, t),
         value |-> IF Fresh(entry, op, t) THEN entry.value ELSE None]

\* asyncache.cached, after the await of the operation: cache[k] = val at the
\* time the operation returned; one that raised stores nothing
stored(ch, t, op, arg, r) ==
    IF r.raised = "none"
    THEN [ch EXCEPT ![CacheKey(op, arg)] = [has |-> TRUE, value |-> r.value, at |-> t]]
    ELSE ch

\* the caches a and b hold the same entries
SameCache(a, b) ==
    \A k \in CacheKeys :
        /\ a[k].has = b[k].has
        /\ a[k].has => (a[k].at = b[k].at /\ a[k].value = b[k].value)

\* a cached read that no other coroutine overlaps and during which the
\* clock does not tick: the lookup, the operation, the store
cached(ch, t, op, arg, tries) ==
    IF lookup(ch, t, op, arg).hit
    THEN [cache |-> ch,
          res   |-> [NoRuns EXCEPT !.value = lookup(ch, t, op, arg).value, !.hit = TRUE]]
    ELSE The({[cache |-> stored(ch, t, op, arg, r), res |-> r] :
                 r \in {retried(op, arg, tries)}})

\* ---- getCircuit under its decorator ----

\* the record of the fields a /wholeRoom body carries, as a Response
AsResponse(f) ==
    IF f.raised = "none"
    THEN Response(TRUE, f.value.target, f.value.user_offset)
    ELSE Response(FALSE, None, None)

\* a login that succeeds at once, as often as it is tried
AllOk == [i \in 1..BACKOFF_MAX_TRIES |-> "ok"]
\* a login whose every POST comes back with the error marker
AllRejected == [i \in 1..BACKOFF_MAX_TRIES |-> "rejected"]

\* a run in which the device answers with data v, and one in which it answers
\* with a status other than 200
Answered(v) == Attempt(AllOk, Post(200, "data", v))
Refused == Attempt(AllOk, Post(500, "empty", 0))

\* the same answer to every run, and a refusal followed by answers
Always(att) == [i \in 1..BACKOFF_MAX_TRIES |-> att]
Late(att) == [i \in 1..BACKOFF_MAX_TRIES |-> IF i = 1 THEN Refused ELSE att]

\* what a circuit reports while it is polled: a target that is the scheduled
\* temperature plus the user offset
Reading == [target |-> 200, user_offset |-> 20]

\* ---- setManualTemp ----

\* the command setManualTemp is about to post: the circuit, the new target
\* and the offset that goes into the form field (client.py:150-154)
Command(c, new_target, current_target) ==
    [c |-> c, t |-> new_target, off |-> new_target - current_target]

\* the command of a setManualTemp call that has yet to read the circuit for
\* its current target
Pending(c, new_target) == [c |-> c, t |-> new_target, off |-> None]

\* no command at hand
NoCommand == Pending(None, None)

\* the target the offset is taken from (client.py:143-149): the one passed
\* in, or the scheduled temperature (target - user offset) of the record
\* current_settings that getCircuit returned, or new_target itself when that
\* record has a field missing ("this will create a zero offset")
CurrentTarget(new_target, current_target, current_settings) ==
    IF current_target # None THEN current_target
    ELSE IF /\ current_settings.target_temperature # None
            /\ current_settings.user_offset # None
         THEN current_settings.target_temperature - current_settings.user_offset
         ELSE new_target

\* a slip: setManualTemp decorated with backoff.on_exception like the reads,
\* so a POST that fails is sent again
setManualTemp_Retried(cmd, outcome) ==
    LET ev == CmdEv(cmd.c, cmd.t, cmd.off, outcome = "ok")
    IN  IF outcome = "auth_error"
        THEN [log |-> <<AuthFailEv(cmd.c)>>, raised |-> TRUE]
        ELSE IF outcome = "ok"
        THEN [log |-> <<ev>>, raised |-> FALSE]
        ELSE [log |-> <<ev, ev, ev>>, raised |-> TRUE]

\* setManualTemp from its login on (client.py:155-162): what it sends and
\* whether it raises.  outcome is how the login and the POST end.
setManualTemp(cmd, outcome) ==
    IF outcome = "auth_error"
    THEN [log |-> <<AuthFailEv(cmd.c)>>, raised |-> TRUE]
    ELSE [log |-> <<CmdEv(cmd.c, cmd.t, cmd.off, outcome = "ok")>>,
          raised |-> outcome # "ok"]

\* ---- storeOverrides ----

\* storeOverrides(): the store afterwards, what was done, whether it raises.
\* The store takes the payload, or refuses it, when async_save is called;
\* the coroutine learns which when the call returns.
storeOverrides(ov, st, has, saveOk) ==
    IF has
    THEN IF saveOk
         THEN [st |-> serializeAll(ov), log |-> <<SaveEv(TRUE)>>, raised |-> FALSE]
         ELSE [st |-> st, log |-> <<SaveEv(FALSE)>>, raised |-> TRUE]
    ELSE [st |-> st, log |-> <<WarnEv>>, raised |-> FALSE]

\* ---- from one await to the next ----

\* A coroutine runs without interruption from one await to the next.  What
\* it has done when it gets there: the map and the store by then, the events
\* of the stretch, the record it is going to return, whether an exception is
\* on its way to the caller, and the await it is suspended in (next: "read"
\* for the /wholeRoom read, "cmd" for the login and POST of a command,
\* "save" for the store, "done" when the call has ended), with what that
\* await is for (why), the command being posted and whether the store took
\* the payload.
Stretch(ov, st, log, ret, raised, next, why, cmd, saved) ==
    [ov |-> ov, st |-> st, log |-> log, ret |-> ret, raised |-> raised,
     next |-> next, why |-> why, cmd |-> cmd, saved |-> saved]

\* the call ends
Ends(ov, st, log, ret, raised) ==
    Stretch(ov, st, log, ret, raised, "done", "none", NoCommand, TRUE)

\* ---- getCircuit ----

\* client.py:316  override.stop_at is None or override.stop_at > now
IsActive(o, t) == o.stop_at = None \/ o.stop_at > t

\* a slip: the command is re-issued on every read that finds a difference
NeedsReissue_NoDelay(o, raw, t) == raw # o.temperature

\* a slip: the command is re-issued once 300 s have passed, not more than 300 s
NeedsReissue_AtLeast(o, raw, t) ==
    raw # o.temperature /\ o.last_set <= t - TEMPERATURE_OVERRIDE_CHECK_DELAY

\* client.py:320-321  the device disagrees and the last attempt is old enough
NeedsReissue(o, raw, t) ==
    raw # o.temperature /\ o.last_set < t - TEMPERATURE_OVERRIDE_CHECK_DELAY

\* client.py:334
NotYetDisabled(o) == o.disabled_at = None

\* a slip: the grace period ends after exactly 300 s, not after more
GraceOver_AtLeast(o, t) == o.disabled_at <= t - TEMPERATURE_OVERRIDE_CHECK_DELAY

\* client.py:340
GraceOver(o, t) == o.disabled_at < t - TEMPERATURE_OVERRIDE_CHECK_DELAY

\* a slip: skip_override_check is not looked at
ChecksOverride_IgnoresSkip(ov, c, skip, resp) ==
    c \in DOMAIN ov /\ resp.target # None

\* client.py:312  the reconciliation block is entered
ChecksOverride(ov, c, skip, resp) ==
    ~skip /\ c \in DOMAIN ov /\ resp.target # None

\* the record as decoded from the response (client.py:264-311)
Decoded(resp) ==
    [target_temperature     |-> resp.target,
     target_temperature_raw |-> resp.target,
     user_offset            |-> resp.user_offset]

\* a slip: the record keeps the target the device reported
OverriddenTarget_Raw(o, resp) == resp.target

\* client.py:315  result["target_temperature"] = override.temperature
OverriddenTarget(o, resp) == o.temperature

\* a slip: last_set is stamped when the command has returned, not before
\* the read suspends in it
stamp_AfterCommand(ov, c, t) == ov

\* client.py:322  override.last_set = datetime.now()
stamp(ov, c, t) == [ov EXCEPT ![c].last_set = t]

\* a slip: last_set is not stamped when the command is re-issued
ReconcileActive_NoStamp(ov, st, t, c, resp) ==
    LET o   == ov[c]
        ret == [Decoded(resp) EXCEPT !.target_temperature = OverriddenTarget(o, resp)]
    IN  IF NeedsReissue(o, resp.target, t) /\ resp.user_offset # None
        THEN Stretch(ov, st, <<>>, ret, FALSE, "cmd", "reissue",
                     Command(c, o.temperature, resp.target - resp.user_offset), TRUE)
        ELSE Ends(ov, st, <<>>, ret, FALSE)

\* client.py:316-325: the override is in force.  When the command is due,
\* last_set is stamped and the read suspends in setManualTemp.
ReconcileActive(ov, st, t, c, resp) ==
    LET o   == ov[c]
        ret == [Decoded(resp) EXCEPT !.target_temperature = OverriddenTarget(o, resp)]
    IN  IF NeedsReissue(o, resp.target, t)
        THEN IF resp.user_offset = None
             \* raw - None raises TypeError before the call is made
             THEN Ends(stamp(ov, c, t), st, <<>>, ret, FALSE)
             ELSE Stretch(stamp(ov, c, t), st, <<>>, ret, FALSE, "cmd", "reissue",
                          Command(c, o.temperature, resp.target - resp.user_offset),
                          TRUE)
        ELSE Ends(ov, st, <<>>, ret, FALSE)

\* a slip: the record of an expired override keeps the offset the device
\* reports
ExpiredRecord_DeviceOffset(resp) == Decoded(resp)

\* client.py:331-332  the record of a circuit whose override has expired:
\* user_offset forced to 0, target_temperature back to the raw target
ExpiredRecord(resp) ==
    [Decoded(resp) EXCEPT !.user_offset = 0,
                          !.target_temperature = Decoded(resp).target_temperature_raw]

\* client.py:326-344: the override has expired.  An override not yet
\* disabled sends the read into setManualTemp(circuit_id, 0, 0); one whose
\* grace period is over is deleted and the map handed to the store.
ReconcileExpired(ov, st, has, t, c, resp, saveOk) ==
    LET o   == ov[c]
        ret == ExpiredRecord(resp)
    IN  IF NotYetDisabled(o)
        THEN Stretch(ov, st, <<>>, ret, FALSE, "cmd", "zero", Command(c, 0, 0), TRUE)
        ELSE IF GraceOver(o, t)
        THEN LET ov1 == Del(ov, c)
                 s   == storeOverrides(ov1, st, has, saveOk)
             IN  IF has
                 THEN Stretch(ov1, s.st, <<DelEv(c)>> \o s.log, ret, FALSE,
                              "save", "delete", NoCommand, ~s.raised)
                 ELSE Ends(ov1, s.st, <<DelEv(c)>> \o s.log, ret, FALSE)
        ELSE Ends(ov, st, <<>>, ret, FALSE)

\* getCircuit(circuit_id, skip_override_check) from the answer to its read
\* on (client.py:228-347), up to the await of its reconciliation or to its
\* return.  resp is what the read yields after the retries of the backoff
\* decorator: a failure raises.
getCircuit(ov, st, has, t, c, skip, resp, saveOk) ==
    IF ~resp.ok
    THEN Ends(ov, st, <<ReadEv(c, FALSE)>>, NoRet, TRUE)
    ELSE LET r == IF ~ChecksOverride(ov, c, skip, resp)
                  THEN Ends(ov, st, <<>>, Decoded(resp), FALSE)
                  ELSE IF IsActive(ov[c], t)
                  THEN ReconcileActive(ov, st, t, c, resp)
                  ELSE ReconcileExpired(ov, st, has, t, c, resp, saveOk)
         IN  [r EXCEPT !.log = <<ReadEv(c, TRUE)>> \o @]

\* a slip: the override is marked disabled whether or not the zero-offset
\* command went through
markDisabled_Always(ov, c, t, raised) ==
    IF c \in DOMAIN ov THEN [ov EXCEPT ![c].disabled_at = t] ELSE ov

\* client.py:337-339: when setManualTemp(circuit_id, 0, 0) has returned,
\* self.overrides[circuit_id], the entry the map holds by then, is marked
\* disabled; without an entry the KeyError is swallowed like the exception
\* of a command that failed
markDisabled(ov, c, t, raised) ==
    IF ~raised /\ c \in DOMAIN ov THEN [ov EXCEPT ![c].disabled_at = t] ELSE ov

\* a slip: no try/except around the reconciliation, so a failing command or
\* save ends the read with its exception
Caught_Never(why) == FALSE

\* client.py:313, 345-346: the awaits inside the try block of getCircuit,
\* whose exceptions are swallowed
Caught(why) == why \in {"reissue", "zero", "delete"}

\* ---- the operations as a caller runs them ----

\* the value `dev' takes when the operation decoded no response
NoDev == [target |-> None, user_offset |-> None]

\* A coroutine of the override engine: the operation and its arguments; where
\* it is suspended (pc) and for what (why), with the command it is posting
\* and the store's verdict on the payload it handed over; the entry the
\* circuit had (pre) at the instant (at) the operation looked at the map:
\* when it was called, and for getCircuit when its read was answered; the
\* instant its read was answered and the reconciliation ran (seen); the
\* fields of the response it decoded (dev) and the runs of its read (net);
\* the entry the map held for the circuit when its command returned (found)
\* and the TemperatureOverride object its local variable `override' refers
\* to (obj);
\* what it did in order (log), the record a read returns (ret), whether it
\* raises to its caller; whether it left the map, the other circuits'
\* entries and the store as they were; and whether no other coroutine was in
\* flight while it ran (alone).
Coroutine(op, c, skip, temperature, duration, t, pre, alone) ==
    [pc |-> "done", why |-> "none", op |-> op, c |-> c, skip |-> skip,
     temperature |-> temperature, duration |-> duration,
     cmd |-> NoCommand, saved |-> TRUE,
     pre |-> pre, at |-> t, dev |-> NoDev, net |-> NoRuns, found |-> NoOverride,
     obj |-> None, seen |-> None,
     log |-> <<>>, ret |-> NoRet, raised |-> FALSE,
     mapSame |-> TRUE, othersSame |-> TRUE, storeSame |-> TRUE, alone |-> alone]

\* coroutine me after the stretch r, which found the map ov and the store st
Then(me, r, ov, st) ==
    [ov |-> r.ov, st |-> r.st,
     me |-> [me EXCEPT
               !.pc = r.next, !.why = r.why, !.cmd = r.cmd, !.saved = r.saved,
               !.log = @ \o r.log, !.ret = r.ret, !.raised = r.raised,
               !.mapSame = @ /\ r.ov = ov,
               !.othersSame = @ /\ \A k \in Circuits \ {me.c} :
                                      EntryOf(r.ov, k) = EntryOf(ov, k),
               !.storeSame = @ /\ r.st = st]]

\* getCircuit(circuit_id, skip_override_check) is called: it suspends in its
\* read (client.py:224-232)
getCircuitCalled(ov, st, t, c, skip, alone) ==
    Then(Coroutine("getCircuit", c, skip, None, None, None, NoOverride, alone),
         Stretch(ov, st, <<>>, NoRet, FALSE, "read", "own", NoCommand, TRUE),
         ov, st)

\* what setTemperatureOverride computes for stop_at (client.py:167-171)
StopAt(t, duration) == IF duration # None THEN t + duration ELSE None

\* a slip: the map is not handed to the store before the command is sent
setTemperatureOverride_NoSave(ov, st, has, t, c, temperature, duration, saveOk, alone) ==
    Then(Coroutine("setTemperatureOverride", c, FALSE, temperature, duration, t,
                   EntryOf(ov, c), alone),
         Stretch(Put(ov, c, TemperatureOverride(temperature, t, StopAt(t, duration))),
                 st, <<PutEv(c)>>, NoRet, FALSE, "read", "current",
                 Pending(c, temperature), TRUE),
         ov, st)

\* setTemperatureOverride(circuit_id, temperature, duration) is called
\* (client.py:164-178): the new override replaces the entry and the map is
\* handed to the store, in which the call suspends; without a store it goes
\* on to setManualTemp, which suspends in its read
setTemperatureOverride(ov, st, has, t, c, temperature, duration, saveOk, alone) ==
    LET ov1 == Put(ov, c, TemperatureOverride(temperature, t, StopAt(t, duration)))
        s   == storeOverrides(ov1, st, has, saveOk)
    IN  Then(Coroutine("setTemperatureOverride", c, FALSE, temperature, duration, t,
                       EntryOf(ov, c), alone),
             Stretch(ov1, s.st, <<PutEv(c)>> \o s.log, NoRet, FALSE,
                     IF has THEN "save" ELSE "read",
                     IF has THEN "put" ELSE "current",
                     Pending(c, temperature), ~s.raised),
             ov, st)

\* a slip: without an entry, the current target is left out of the call, so
\* the offset is taken from a fresh read
removeTemperatureOverride_NoCurrent(ov, st, t, c, alone) ==
    LET me == Coroutine("removeTemperatureOverride", c, FALSE, None, None, t,
                        EntryOf(ov, c), alone)
    IN  IF c \in DOMAIN ov
        THEN Then(me, Stretch([ov EXCEPT ![c].stop_at = t - 1], st, <<>>, NoRet, FALSE,
                              "read", "own", NoCommand, TRUE), ov, st)
        ELSE Then(me, Stretch(ov, st, <<>>, NoRet, FALSE, "read", "current",
                              Pending(c, 0), TRUE), ov, st)

\* removeTemperatureOverride(circuit_id) is called (client.py:188-198): with
\* an entry it puts stop_at in the past and suspends in the read of
\* getCircuit, without one it suspends in setManualTemp(circuit_id, 0, 0)
removeTemperatureOverride(ov, st, t, c, alone) ==
    LET me == Coroutine("removeTemperatureOverride", c, FALSE, None, None, t,
                        EntryOf(ov, c), alone)
    IN  IF c \in DOMAIN ov
        THEN Then(me, Stretch([ov EXCEPT ![c].stop_at = t - 1], st, <<>>, NoRet, FALSE,
                              "read", "own", NoCommand, TRUE), ov, st)
        ELSE Then(me, Stretch(ov, st, <<>>, NoRet, FALSE, "cmd", "plain",
                              Command(c, 0, 0), TRUE), ov, st)

\* the environment's answer to the await of a coroutine: the runs of the
\* /wholeRoom read, how the login and the POST of a command end, and whether
\* the store takes a payload handed to it in the stretch that follows
Answer(tries, outcome, saveOk) ==
    [tries |-> tries, outcome |-> outcome, saveOk |-> saveOk]

\* storeOverrides has returned.  In setTemperatureOverride (client.py:178-179)
\* its exception ends the call, and otherwise setManualTemp goes for its
\* read; in getCircuit (client.py:344-347) the read returns its record.
afterSave(me, ov, st) ==
    IF me.why = "put"
    THEN IF me.saved
         THEN Stretch(ov, st, <<>>, NoRet, FALSE, "read", "current", me.cmd, TRUE)
         ELSE Ends(ov, st, <<>>, NoRet, TRUE)
    ELSE IF ~me.saved /\ ~Caught(me.why)
         THEN Ends(ov, st, <<>>, NoRet, TRUE)
         ELSE Ends(ov, st, <<>>, me.ret, FALSE)

\* the getCircuit(circuit_id, skip_override_check=True) that setManualTemp
\* calls for the current target has been answered (client.py:143-155): the
\* offset is taken from the record it returns and the call suspends in its
\* login and POST; a read that fails ends the call
afterCurrent(me, ov, st, has, t, resp, saveOk) ==
    LET r == getCircuit(ov, st, has, t, me.c, TRUE, resp, saveOk)
    IN  IF r.next = "done" /\ ~r.raised
        THEN Stretch(r.ov, r.st, r.log, NoRet, FALSE, "cmd", "set",
                     Command(me.c, me.cmd.t, CurrentTarget(me.cmd.t, None, r.ret)),
                     TRUE)
        ELSE [r EXCEPT !.ret = NoRet]

\* setManualTemp has returned or raised: inside getCircuit's try block the
\* exception is swallowed and the record returned, and after the zero-offset
\* command the entry is marked disabled
afterCommand(me, ov, st, t, outcome) ==
    LET m      == setManualTemp(me.cmd, outcome)
        raised == m.raised /\ ~Caught(me.why)
    IN  Ends(IF me.why = "zero" THEN markDisabled(ov, me.c, t, m.raised) ELSE ov,
             st, m.log, IF raised THEN NoRet ELSE me.ret, raised)

\* the stretch of coroutine me that follows the await it is suspended in,
\* run at time t on the map ov and the store st, the await answered with e
resume(me, ov, st, has, t, e) ==
    IF me.pc = "save"
    THEN Then(me, afterSave(me, ov, st), ov, st)
    ELSE IF me.pc = "cmd"
    THEN Then([me EXCEPT !.found = EntryOf(ov, me.c)],
              afterCommand(me, ov, st, t, e.outcome), ov, st)
    ELSE LET f    == retried("getCircuit", me.c, e.tries)
             resp == AsResponse(f)
             read == [me EXCEPT !.net = [f EXCEPT !.value = None],
                                !.dev = IF resp.ok
                                        THEN [target |-> resp.target,
                                              user_offset |-> resp.user_offset]
                                        ELSE @]
         IN  IF me.why = "current"
             THEN Then(read, afterCurrent(me, ov, st, has, t, resp, e.saveOk), ov, st)
             ELSE Then(IF me.op \in {"getCircuit", "getAllData"}
                       THEN [read EXCEPT !.pre = EntryOf(ov, me.c), !.at = t,
                                         !.seen = t]
                       ELSE [read EXCEPT !.seen = t],
                       getCircuit(ov, st, has, t, me.c, me.skip, resp, e.saveOk),
                       ov, st)

\* an operation that runs from its call to its end with no other coroutine
\* and no tick of the clock in between: r is where its first stretch left it
RECURSIVE uninterrupted(_, _, _, _)
uninterrupted(r, has, t, e) ==
    IF r.me.pc = "done" THEN r
    ELSE uninterrupted(resume(r.me, r.ov, r.st, has, t, e), has, t, e)

\* ---- the cached reads as coroutines ----

\* A coroutine of a cached read, or of an operation that awaits one: the
\* operation called (op) with its argument, the cached read it is suspended
\* in (fetch), the cache entry the lookup found (pre) and the time of the
\* lookup (at), the runs of the fetch (net), whether the call left the
\* caches as they were, the response its last run got (answer), the
\* temperature setLowMode is going to post, and whether no other coroutine
\* was in flight while it ran
Reader(op, arg, fetch, pre, t, alone) ==
    [pc |-> "fetch", op |-> op, arg |-> arg, fetch |-> fetch, pre |-> pre, at |-> t,
     net |-> NoRuns, cacheSame |-> TRUE, answer |-> NoPost, temperature |-> None,
     alone |-> alone]

\* what a lookup that found a value hands to the caller
Hit(value) == [NoRuns EXCEPT !.value = value, !.hit = TRUE]

\* a cached read is called (asyncache.cached): a fresh entry ends the call
\* at once, otherwise the call suspends in the operation
cachedCalled(ch, t, op, arg, alone) ==
    LET me == Reader(op, arg, op, ch[CacheKey(op, arg)], t, alone)
        f  == lookup(ch, t, op, arg)
    IN  [cache |-> ch,
         me |-> IF f.hit THEN [me EXCEPT !.pc = "done", !.net = Hit(f.value)] ELSE me]

\* sha256 of the names joined by NUL, the first 8 hex digits
\* (client.py:105-107): a digest is told apart by the bytes it was taken
\* of, so name lists that join to the same bytes have the same digest
Digest(names) == <<"sha256", join(<<Nul>>, names)>>

\* getUniqueId() is called (client.py:95-107): behind its own cache it
\* awaits getCircuitNames(), which a fresh entry of that cache answers at
\* once
getUniqueIdCalled(ch, t, alone) ==
    LET me == Reader("getUniqueId", None, "getCircuitNames",
                     ch[CacheKey("getUniqueId", None)], t, alone)
        f  == lookup(ch, t, "getUniqueId", None)
        g  == lookup(ch, t, "getCircuitNames", None)
        r  == Hit(Digest(g.value))
    IN  IF f.hit
        THEN [cache |-> ch, me |-> [me EXCEPT !.pc = "done", !.net = Hit(f.value)]]
        ELSE IF g.hit
        THEN [cache |-> stored(ch, t, "getUniqueId", None, r),
              me |-> [me EXCEPT !.pc = "done", !.net = r,
                                !.cacheSame = SameCache(stored(ch, t, "getUniqueId", None, r), ch)]]
        ELSE [cache |-> ch, me |-> me]

\* setLowMode(enabled, temperature) is called (client.py:571-589): without a
\* temperature it awaits getLowMode() for the one in force, then it goes on
\* to its login and POST
setLowModeCalled(ch, t, enabled, temperature, alone) ==
    LET me == Reader("setLowMode", [enabled |-> enabled, temperature |-> temperature],
                     "getLowMode", ch[CacheKey("getLowMode", None)], t, alone)
        f  == lookup(ch, t, "getLowMode", None)
    IN  [cache |-> ch,
         me |-> IF temperature # None
                THEN [me EXCEPT !.pc = "post", !.temperature = temperature]
                ELSE IF f.hit
                THEN [me EXCEPT !.pc = "post", !.net = Hit(f.value),
                                !.temperature = f.value.temperature]
                ELSE me]

\* ---- getAllData ----

\* the calls getAllData makes after the circuits, in order (client.py:930-933)
SubFetches == <<"getHDO", "getVentilation", "getSummerMode", "getLowMode">>

\* one awaited call of getAllData: the operation, its argument, whether it
\* was served from the cache, whether it raised, and the runs of its body
Call(op, arg, hit, raised, runs) ==
    [op |-> op, arg |-> arg, hit |-> hit, raised |-> raised, runs |-> runs]

\* The coroutine of getAllData: that of the getCircuit it is in, with the
\* cached read it is suspended in (fetch, and why while it is), the number
\* of circuits (n), the calls made so far and the records and fields
\* gathered; the getCircuit calls that have ended, each as its own coroutine
\* (reads), and where the log of the one in progress begins (from)
Poll(alone) ==
    [fetch |-> "getNumCircuits", arg |-> None, n |-> 0, calls |-> <<>>,
     circuits |-> <<>>, fields |-> <<>>, reads |-> <<>>, from |-> 1]
    @@ [Coroutine("getAllData", None, FALSE, None, None, None, NoOverride, alone)
        EXCEPT !.pc = "fetch", !.why = "getNumCircuits"]

\* client.py:929  await self.getCircuit(circuit_id): the read of circuit c
\* is called and suspends
readCircuit(me, c) ==
    [me EXCEPT !.pc = "read", !.why = "own", !.c = c, !.cmd = NoCommand,
               !.from = Len(me.log) + 1]

\* the getCircuit that getAllData awaited, as a coroutine of its own
ReadOf(me) ==
    [[f \in DOMAIN Coroutine("getCircuit", me.c, FALSE, None, None, None, NoOverride, TRUE)
         |-> me[f]]
     EXCEPT !.op = "getCircuit", !.log = SubSeq(me.log, me.from, Len(me.log))]

\* client.py:934-942  the snapshot returned
Snapshot(me) ==
    [circuits    |-> me.circuits,
     hdo         |-> me.fields[1],
     ventilation |-> me.fields[2],
     summer_mode |-> me.fields[3],
     low_mode    |-> me.fields[4]]

\* client.py:930-933 from the call after the fields gathered on: a fresh
\* cache entry answers a call at once, otherwise getAllData suspends in the
\* operation; after the last call the snapshot is returned
RECURSIVE readFields(_, _, _)
readFields(me, ch, t) ==
    IF Len(me.fields) >= Len(SubFetches)
    THEN [me EXCEPT !.pc = "done", !.why = "none", !.ret = Snapshot(me), !.raised = FALSE]
    ELSE LET op == SubFetches[Len(me.fields) + 1]
             f  == lookup(ch, t, op, None)
         IN  IF f.hit
             THEN readFields([me EXCEPT !.calls = Append(@, Call(op, None, TRUE, FALSE, 0)),
                                        !.fields = Append(@, f.value)], ch, t)
             ELSE [me EXCEPT !.pc = "fetch", !.fetch = op, !.why = op]

\* client.py:928-929 once the number of circuits is known: the first
\* circuit is read, or with no circuit the other calls follow
readCircuits(me, ch, t) ==
    IF me.n > 0 THEN readCircuit(me, 0) ELSE readFields(me, ch, t)

\* getAllData() is called (client.py:923-927): it awaits getNumCircuits()
getAllDataCalled(ch, t, alone) ==
    LET f == lookup(ch, t, "getNumCircuits", None)
    IN  [cache |-> ch,
         me |-> IF f.hit
                THEN readCircuits([Poll(alone) EXCEPT
                                     !.n = f.value,
                                     !.calls = <<Call("getNumCircuits", None, TRUE,
                                                      FALSE, 0)>>], ch, t)
                ELSE Poll(alone)]

\* the getCircuit that getAllData awaits has got as far as me: when it has
\* ended, its exception ends getAllData, and otherwise its record is
\* appended and the next circuit read or, after the last one, the other
\* calls made (client.py:928-930)
afterCircuit(me, ch, t) ==
    LET call == Call("getCircuit", me.c, FALSE, me.raised, me.net.tries)
    IN  IF me.pc # "done"
        THEN me
        ELSE IF me.raised
        THEN [me EXCEPT !.calls = Append(@, call), !.ret = NoRet,
                        !.reads = Append(@, ReadOf(me))]
        ELSE LET me1 == [me EXCEPT !.calls = Append(@, call),
                                   !.circuits = Append(@, me.ret),
                                   !.reads = Append(@, ReadOf(me))]
             IN  IF me.c + 1 < me.n
                 THEN readCircuit(me1, me.c + 1)
                 ELSE readFields(me1, ch, t)

\* the cached read getAllData awaits has ended with the runs r, the value
\* stored in cache ch
afterFetch(me, ch, t, r) ==
    LET call == Call(me.fetch, None, FALSE, r.raised # "none", r.tries)
        me1  == [me EXCEPT !.calls = Append(@, call)]
    IN  IF r.raised # "none"
        THEN [me1 EXCEPT !.pc = "done", !.why = "none", !.ret = NoRet, !.raised = TRUE]
        ELSE IF me.fetch = "getNumCircuits"
        THEN readCircuits([me1 EXCEPT !.n = r.value], ch, t)
        ELSE readFields([me1 EXCEPT !.fields = Append(@, r.value)], ch, t)

\* ---- a coroutine resumed from a cached read ----

\* the operation coroutine me awaits behind its cache has run, its runs
\* answered by tries: asyncache.cached stores the value, and the coroutine
\* goes on to its next await or to its end
fetched(me, ch, t, tries) ==
    LET \* the operation awaited takes the caller's argument when it is the
        \* operation called, and none otherwise
        arg == IF me.fetch = me.op THEN me.arg ELSE None
        r   == retried(me.fetch, arg, tries)
        ch1 == stored(ch, t, me.fetch, arg, r)
    IN  CASE me.op = "getAllData" ->
               [cache |-> ch1, me |-> afterFetch(me, ch1, t, r)]
          [] me.op = "getUniqueId" ->
               \* the names are stored by getCircuitNames, the digest by
               \* getUniqueId
               LET d   == [r EXCEPT !.value = IF r.raised = "none" THEN Digest(r.value)
                                                ELSE None]
                   ch2 == stored(ch1, t, "getUniqueId", None, d)
               IN  [cache |-> ch2,
                    me |-> [me EXCEPT !.pc = "done", !.net = d, !.cacheSame = SameCache(ch2, ch)]]
          [] me.op = "setLowMode" ->
               [cache |-> ch1,
                me |-> IF r.raised # "none"
                       THEN [me EXCEPT !.pc = "done", !.net = r, !.cacheSame = SameCache(ch1, ch)]
                       ELSE [me EXCEPT !.pc = "post", !.net = r, !.cacheSame = SameCache(ch1, ch),
                                       !.temperature = r.value.temperature]]
          [] OTHER ->
               [cache |-> ch1,
                me |-> [me EXCEPT !.pc = "done", !.net = r, !.cacheSame = SameCache(ch1, ch),
                                  !.answer = tries[r.tries].post]]

\* ---- form fields ----

\* str.format of an integer: the decimal digits, as a sequence of characters
Digit(d) == <<"0", "1", "2", "3", "4", "5", "6", "7", "8", "9">>[d + 1]

RECURSIVE Dec(_)
Dec(n) == IF n < 10 THEN <<Digit(n)>> ELSE Dec(n \div 10) \o <<Digit(n % 10)>>

\* w characters "0"
RECURSIVE Zeros(_)
Zeros(w) == IF w <= 0 THEN <<>> ELSE <<"0">> \o Zeros(w - 1)

\* "{:0wd}".format(n): zero-padded to at least w characters, the sign
\* first; never cut
ZeroPad(n, w) ==
    IF n >= 0
    THEN Zeros(w - Len(Dec(n))) \o Dec(n)
    ELSE <<"-">> \o Zeros(w - 1 - Len(Dec(-n))) \o Dec(-n)

\* what a write operation did: the login POSTs and request POSTs it sent,
\* the form field it posted, the exception it raised, the value it returned
Wrote(logins, posts, param, raised, ret) ==
    [logins |-> logins, posts |-> posts, param |-> param, raised |-> raised, ret |-> ret]

\* authenticate, then POST param: the tail shared by the write operations.
\* The value returned is "true" in the response text.
LoginAndPost(param, att) ==
    LET a == authenticate(att.logins)
    IN  IF a.raised # "none"
        THEN Wrote(a.posts, 0, <<>>, a.raised, FALSE)
        ELSE IF att.post.status # 200
        THEN Wrote(a.posts, 1, param, "Exception", FALSE)
        ELSE Wrote(a.posts, 1, param, "none", att.post.body = "data" /\ att.post.v = 1)

\* ---- setSummerModeAssignments ----

\* "".join([str(int(x)) for x in assignments])
Bits(assignments) ==
    [i \in 1..Len(assignments) |-> Digit(IF assignments[i] THEN 1 ELSE 0)]

\* for circuit_id in circuits: assignments[circuit_id] = value, from the k-th
\* circuit on; an index past the end raises IndexError, the earlier ones
\* having been assigned
RECURSIVE assign(_, _, _, _)
assign(assignments, circuits, value, k) ==
    IF k > Len(circuits)
    THEN [list |-> assignments, raised |-> "none"]
    ELSE IF circuits[k] >= Len(assignments)
    THEN [list |-> assignments, raised |-> "IndexError"]
    ELSE assign([assignments EXCEPT ![circuits[k] + 1] = value], circuits, value, k + 1)

\* The lists getSummerModeAssignments() returns are told apart by a number
\* (id): the cached read returns the list the cache holds, not a copy.
NoList == [id |-> 0, value |-> <<>>]

\* The coroutine of setSummerModeAssignments(circuits, value), called at time
\* t: it suspends in authenticate() (client.py:503-508).  pc is the await it
\* is suspended in: "login" for authenticate(), "fetch" for the operation
\* behind the cache of getSummerModeAssignments(), "rooms" for the POST to
\* /letoSaveRooms.  pre is the cache entry its lookup found and hit whether
\* that entry was served; preDevice the controller's settings when it got
\* the list; list the list it assigns to, sent the vector it posted, answer
\* the response to it and accepted whether that held "true"; net the login
\* and request POSTs, the form field posted, the exception raised and the
\* value returned.
setSummerModeAssignments(circuits, value, t, dev, alone) ==
    [pc |-> "login", op |-> "setSummerModeAssignments",
     arg |-> [circuits |-> circuits, value |-> value], at |-> t,
     fetch |-> "getSummerModeAssignments",
     pre |-> NotCached, hit |-> FALSE, preDevice |-> dev,
     list |-> NoList, sent |-> <<>>, answer |-> NoPost, accepted |-> FALSE,
     net |-> Wrote(0, 0, <<>>, "none", None), alone |-> alone]

\* client.py:510-514: the circuits are assigned in the list, which is the
\* one the cache holds, so the cache entry changes with it; the form field
\* is made of the list and the POST sent, in which the call suspends
assigned(me, ch, list) ==
    LET m   == assign(list.value, me.arg.circuits, me.arg.value, 1)
        ch1 == [ch EXCEPT ![CacheKey("getSummerModeAssignments", None)].value = m.list]
        me1 == [me EXCEPT !.list = [id |-> list.id, value |-> m.list]]
    IN  IF m.raised # "none"
        THEN [cache |-> ch1, me |-> [me1 EXCEPT !.pc = "done", !.net.raised = m.raised]]
        ELSE [cache |-> ch1, me |-> [me1 EXCEPT !.pc = "rooms", !.sent = m.list]]

\* authenticate() has returned or raised (client.py:508-509): the cached
\* read is called, and a fresh entry answers it at once with the list the
\* cache holds (listed is its number)
afterAuthenticate(me, ch, dev, t, logins, listed) ==
    LET a   == authenticate(logins)
        f   == lookup(ch, t, "getSummerModeAssignments", None)
        me1 == [me EXCEPT !.net.logins = a.posts]
        me2 == [me1 EXCEPT !.pre = ch[CacheKey("getSummerModeAssignments", None)],
                           !.hit = f.hit, !.preDevice = dev]
    IN  IF a.raised # "none"
        THEN [cache |-> ch, me |-> [me1 EXCEPT !.pc = "done", !.net.raised = a.raised]]
        ELSE IF f.hit
        THEN assigned(me2, ch, [id |-> listed, value |-> f.value])
        ELSE [cache |-> ch, me |-> [me2 EXCEPT !.pc = "fetch"]]

\* getSummerModeAssignments() has run behind its cache, once (it has no
\* backoff decorator), answered by tries: the list it made (fresh is its
\* number) is stored and assigned to
afterAssignments(me, ch, dev, t, tries, fresh) ==
    LET r   == retried("getSummerModeAssignments", None, tries)
        ch1 == stored(ch, t, "getSummerModeAssignments", None, r)
        me1 == [me EXCEPT !.net.logins = @ + r.logins, !.net.posts = @ + r.posts,
                          !.preDevice = dev]
    IN  IF r.raised # "none"
        THEN [cache |-> ch1, me |-> [me1 EXCEPT !.pc = "done", !.net.raised = r.raised]]
        ELSE assigned(me1, ch1, [id |-> fresh, value |-> r.value])

\* the POST to /letoSaveRooms is answered (client.py:515-524): a status other
\* than 200 raises; the list is returned when the text holds "true", and
\* None otherwise.  The controller takes the vector posted over when it
\* answers "true".
assignmentsPosted(me, dev, post) ==
    LET me1 == [me EXCEPT !.pc = "done", !.answer = post, !.net.posts = @ + 1,
                          !.net.param = Bits(me.sent)]
    IN  IF post.status # 200
        THEN [device |-> dev, me |-> [me1 EXCEPT !.net.raised = "Exception"]]
        ELSE IF post.body = "data" /\ post.v = 1
        THEN [device |-> [dev EXCEPT !.summer = me.sent],
              me |-> [me1 EXCEPT !.accepted = TRUE, !.net.ret = me.list.value]]
        ELSE [device |-> dev, me |-> me1]

\* ---- setSummerMode and getSummerMode on the wire ----

\* the form field of setSummerMode with the value sent as it is
summerModeParam_Plain(value) == IF value THEN 1 ELSE 0

\* "0" if value else "1"
summerModeParam(value) == IF value THEN 0 ELSE 1

\* The coroutine of setSummerMode(value), called at time t: it suspends in
\* its login and its POST of the field to /saveSummerMode (client.py:469-474)
setSummerMode(value, t, ch, dev, alone) ==
    [pc |-> "mode", op |-> "setSummerMode", arg |-> [value |-> value], at |-> t,
     pre |-> ch[CacheKey("getSummerMode", None)], preDevice |-> dev,
     param |-> <<Digit(summerModeParam(value))>>, answer |-> NoPost,
     net |-> Wrote(0, 0, <<>>, "none", FALSE), alone |-> alone]

\* the login and the POST of setSummerMode end (client.py:474-479).  The
\* controller stores the field when it answers "true".
summerModeSaved(me, dev, att) ==
    LET w == LoginAndPost(me.param, att)
    IN  [device |-> IF w.raised = "none" /\ w.ret
                    THEN [dev EXCEPT !.mode = summerModeParam(me.arg.value),
                                     !.asked = me.arg.value]
                    ELSE dev,
         me |-> [me EXCEPT !.pc = "done", !.net = w, !.answer = att.post]]

\* ---- async_set_hvac_mode ----

\* any(assignments)
any(assignments) == \E i \in 1..Len(assignments) : assignments[i]

\* the value climate.py:225 passes to setSummerModeAssignments to take the
\* circuit out of summer mode
RemovalValue == TRUE

\* self.target_temperature (climate.py:119-150): the target of the circuit's
\* record in the coordinator's data d
target_temperature(d, idx) ==
    IF Len(d.circuits) > idx THEN d.circuits[idx + 1].target_temperature ELSE None

\* what a stretch of the handler leaves: the map, the store, the coroutine,
\* and whether it constructed a TemperatureOverride
Left(ov, st, me, put) == [ov |-> ov, st |-> st, me |-> me, put |-> put]

\* the exception of the call the handler awaited ends it
raises(me) == [me EXCEPT !.pc = "done", !.why = "none", !.raised = TRUE]

\* the fields of a coroutine of the override engine
EngineFields == DOMAIN Coroutine("none", None, FALSE, None, None, None, NoOverride, TRUE)

\* climate.py:229-246: HEAT and HEAT_COOL set the override to the entity's
\* target temperature, unless the mode follows a temperature change
\* (automatic) or there is no target; the other modes remove the override.
\* The handler goes on as the operation it awaits.
overridePart(me, ov, st, has, t, d, saveOk) ==
    LET heat   == me.arg.hvac_mode = "heat"
        target == target_temperature(d, me.arg.idx)
        r      == IF heat
                  THEN setTemperatureOverride(ov, st, has, t, me.arg.idx, target, None,
                                              saveOk, me.alone)
                  ELSE removeTemperatureOverride(ov, st, t, me.arg.idx, me.alone)
    IN  IF heat /\ (me.arg.automatic \/ target = None)
        THEN Left(ov, st, [me EXCEPT !.pc = "done", !.why = "none"], FALSE)
        ELSE Left(r.ov, r.st,
                  [f \in DOMAIN me |->
                      IF f \in EngineFields \ {"op"} THEN r.me[f] ELSE me[f]],
                  heat)

\* climate.py:218, 227: setSummerMode(value) is called
modePart(me, value, t, ch, dev) ==
    [me EXCEPT !.pc = "mode", !.why = "mode",
               !.mode = setSummerMode(value, t, ch, dev, me.alone)]

\* climate.py:217-227: the setSummerModeAssignments the handler awaits has
\* got as far as s.  When it has returned, OFF turns summer mode on, and
\* another mode turns it off if the list returned has no circuit left.
afterAssignmentsCall(me, s, ov, st, has, t, ch, dev, d, saveOk) ==
    LET me1 == [me EXCEPT !.sm = s, !.pc = s.pc]
        me2 == [me1 EXCEPT !.returned = s.accepted, !.posted = s.net.param]
    IN  IF s.pc # "done"
        THEN Left(ov, st, me1, FALSE)
        ELSE IF s.net.raised # "none"
        THEN Left(ov, st, raises(me1), FALSE)
        ELSE IF me.arg.hvac_mode = "off"
        THEN Left(ov, st, modePart(me2, TRUE, t, ch, dev), FALSE)
        ELSE IF s.accepted /\ ~any(s.net.ret)
        THEN Left(ov, st, modePart(me2, FALSE, t, ch, dev), FALSE)
        ELSE overridePart(me2, ov, st, has, t, d, saveOk)

\* climate.py:218, 227: the setSummerMode the handler awaits has ended as m
afterModeCall(me, m, ov, st, has, t, d, saveOk) ==
    IF m.net.raised # "none"
    THEN Left(ov, st, raises([me EXCEPT !.mode = m]), FALSE)
    ELSE overridePart([me EXCEPT !.mode = m], ov, st, has, t, d, saveOk)

\* async_set_hvac_mode(hvac_mode, automatic) of the entity of circuit idx is
\* called at time t (climate.py:201-227), the coordinator holding the data
\* d: for OFF, and for another mode when the data say summer mode is on,
\* it suspends in setSummerModeAssignments([idx], True); otherwise it goes
\* on to the override.  sm and mode are the calls of setSummerModeAssignments
\* and setSummerMode it makes; returned tells whether the first returned a
\* list (not None), posted is the vector that call posted.
async_set_hvac_mode(hvac_mode, idx, automatic, ov, st, has, t, ch, dev, d, saveOk, alone) ==
    LET me == [arg |-> [hvac_mode |-> hvac_mode, idx |-> idx, automatic |-> automatic],
               summer_mode |-> d.summer_mode, preDevice |-> dev,
               fetch |-> "getSummerModeAssignments",
               sm |-> [setSummerModeAssignments(<<>>, FALSE, t, dev, alone)
                       EXCEPT !.pc = "idle"],
               mode |-> [setSummerMode(FALSE, t, ch, dev, alone) EXCEPT !.pc = "idle"],
               returned |-> FALSE, posted |-> <<>>]
              @@ Coroutine("async_set_hvac_mode", idx, FALSE, None, None, t,
                           EntryOf(ov, idx), alone)
    IN  IF hvac_mode = "off" \/ d.summer_mode
        THEN Left(ov, st,
                  [me EXCEPT !.pc = "login", !.why = "assignments",
                             !.sm = setSummerModeAssignments(
                                       <<idx>>,
                                       IF hvac_mode = "off" THEN TRUE ELSE RemovalValue,
                                       t, dev, alone)],
                  FALSE)
        ELSE overridePart(me, ov, st, has, t, d, saveOk)

\* climate.py:245-246: when removeTemperatureOverride has returned, the
\* user offset of the circuit's record in the coordinator's data is put to 0
imitated(me, d) ==
    IF /\ me.op = "async_set_hvac_mode" /\ me.pc = "done" /\ ~me.raised
       /\ me.arg.hvac_mode # "heat"
       /\ Len(d.circuits) > me.arg.idx
       /\ d.circuits[me.arg.idx + 1].user_offset # None
    THEN [d EXCEPT !.circuits[me.arg.idx + 1].user_offset = 0]
    ELSE d

\* ---- the state machine ----

\* the operations called in one behaviour
MaxCalls == 2

\* `last' while no operation has ended that the caller has yet to take
Idle == Coroutine("none", None, FALSE, None, None, None, NoOverride, TRUE)

\* the coroutines that may be in flight at once
TaskIds == {1, 2}

\* a free slot of the event loop
NoTask == [Idle EXCEPT !.pc = "idle"]

\* No coroutine started yet.  calls counts the operations called.  obj tells
\* the TemperatureOverride objects of a circuit apart: 0 is the one loaded at
\* construction, and every setTemperatureOverride constructs the next; zeroed
\* holds the ones for which a zero-offset command was posted.  lists counts
\* the lists getSummerModeAssignments has made, and list is the one its cache
\* holds.  low tells whether the low-mode dict of the coordinator's data is
\* the one the cache of getLowMode holds.
NoLoop ==
    [run |-> [t \in TaskIds |-> NoTask], calls |-> 0,
     obj |-> [c \in Circuits |-> 0], zeroed |-> [c \in Circuits |-> {}],
     lists |-> 0, list |-> 0, low |-> FALSE]

\* coordinator.data before the first update: None, written as a snapshot
\* that has no circuit and no field
NoData == [circuits |-> <<>>]

\* the controller before the client talks to it: the circuits assigned to
\* summer mode, one flag per circuit; the summer-mode value it stores, as it
\* is on the wire (1: off); and the value of the setSummerMode call that
\* stored it, kept to compare what is read back with what was asked for
InitialDevice == [summer |-> <<FALSE, TRUE, FALSE>>, mode |-> 1, asked |-> FALSE]

\* the overrides handed to the constructor, as loaded from the store: an
\* indefinite override of the circuit that is only read
Persisted ==
    [k \in Circuits \ Managed |-> serialize(TemperatureOverride(220, 0, None))]

\* the same with an override of the managed circuit, set before the restart
\* with a duration that runs out as the client is constructed
PersistedExpiring ==
    [k \in Circuits |->
        IF k \in Managed THEN serialize(TemperatureOverride(220, 0 - TickStep, 0))
        ELSE Persisted[k]]

\* Bmr.__init__: self.overrides[int(key)] = TemperatureOverride(**value)
LoadOverrides(persisted) ==
    [k \in DOMAIN persisted |->
        TemperatureOverride(persisted[k].temperature, persisted[k].created_at,
                            persisted[k].stop_at)]

\* Bmr.__init__ with the persisted overrides and the store
Init ==
    /\ now = 0
    /\ store \in {Persisted, PersistedExpiring}
    /\ overrides = LoadOverrides(store)
    /\ hasStore = TRUE
    /\ last = Idle
    /\ cache = NoCache
    /\ device = InitialDevice
    /\ loop = NoLoop
    /\ data = NoData

\* time passes, between two operations or while coroutines are suspended
Tick ==
    /\ last = Idle
    /\ now + TickStep <= MaxTime
    /\ now' = now + TickStep
    /\ UNCHANGED <<overrides, store, hasStore, last, cache, device, loop, data>>

\* the caller has taken the result of the operation
Return ==
    /\ last # Idle
    /\ last' = Idle
    /\ UNCHANGED <<now, overrides, store, hasStore, cache, device, loop, data>>

\* no coroutine is in flight
Quiet == \A u \in TaskIds : loop.run[u].pc = "idle"

\* the event loop once coroutine me has started in slot t: the coroutines in
\* flight are no longer alone
Started(t, me) ==
    [loop EXCEPT !.calls = @ + 1,
                 !.obj = IF me.op = "setTemperatureOverride"
                         THEN [@ EXCEPT ![me.c] = @ + 1] ELSE @,
                 !.run = [u \in TaskIds |->
                            IF u = t THEN me
                            ELSE IF loop.run[u].pc = "idle" THEN loop.run[u]
                            ELSE [loop.run[u] EXCEPT !.alone = FALSE]]]

\* fewer than calls operations were called so far
Budget(calls) == loop.calls < calls

\* slot t is the first free one
Free(t) ==
    /\ loop.run[t].pc = "idle"
    /\ \A u \in TaskIds : u < t => loop.run[u].pc # "idle"

\* an operation of the override engine starts in slot t and runs to its
\* first await, where r leaves it
Starts(t, r) ==
    /\ last = Idle
    /\ Free(t)
    /\ overrides' = r.ov
    /\ store' = r.st
    /\ loop' = Started(t, r.me)
    /\ UNCHANGED <<hasStore, last, cache, device, data>>

\* an operation is called
Called(t, r) == Starts(t, r) /\ UNCHANGED now

GetCircuit(t, c, skip) ==
    Called(t, getCircuitCalled(overrides, store, now, c, skip, Quiet))

SetTemperatureOverride(t, c, temperature, duration, saveOk) ==
    Called(t, setTemperatureOverride(overrides, store, hasStore, now, c, temperature,
                                     duration, saveOk, Quiet))

RemoveTemperatureOverride(t, c) ==
    Called(t, removeTemperatureOverride(overrides, store, now, c, Quiet))

\* __init__.py:67-77: the coordinator keeps the snapshot of an update that
\* ended without an exception, and otherwise the data d it had
Kept(me, d) ==
    IF me.op = "getAllData" /\ me.pc = "done" /\ ~me.raised THEN me.ret ELSE d

\* the event loop lp once the coroutine me has got as far as it has: the
\* snapshot the coordinator keeps holds the dict getLowMode() returned last
\* of all (client.py:933, 940), which is the one its cache holds
Sharing(lp, me) ==
    IF me.op = "getAllData" /\ me.pc = "done" /\ ~me.raised
    THEN [lp EXCEPT !.low = TRUE] ELSE lp

\* the coroutine of slot t goes on as me, the event loop being lp and the
\* coordinator's data d by then: it is suspended in its next await, or it
\* has ended, and its caller is handed what it did
Handed(t, me, lp, d) ==
    \E to \in {me} :
       /\ data' = d
       /\ IF to.pc = "done"
          THEN /\ last' = to
               /\ loop' = [Sharing(lp, to) EXCEPT !.run[t] = NoTask]
          ELSE /\ last' = last
               /\ loop' = [lp EXCEPT !.run[t] = to]

\* the await of the coroutine in slot t is answered with e: the coroutine
\* runs to its next await, or to its end
Resumed(t, e) ==
    /\ last = Idle
    /\ \E was \in {loop.run[t]} :
       \E r \in {resume(was, overrides, store, hasStore, now, e)} :
          \* client.py:313  override = self.overrides[circuit_id]
          \E me \in {IF was.pc = "read" /\ was.why = "own" /\ ~r.me.raised
                     THEN [r.me EXCEPT !.obj = loop.obj[was.c]] ELSE r.me} :
             \E to \in {IF was.op = "getAllData" THEN afterCircuit(me, cache, now)
                        ELSE me} :
                /\ overrides' = r.ov
                /\ store' = r.st
                /\ Handed(t, to,
                          IF was.pc = "cmd" /\ was.why = "zero" /\ e.outcome # "auth_error"
                          THEN [loop EXCEPT !.zeroed[was.c] = @ \cup {was.obj}]
                          ELSE loop,
                          imitated(to, Kept(to, data)))
    /\ UNCHANGED <<now, hasStore, cache, device>>

\* the /wholeRoom read of the coroutine in slot t is answered
ReadReturns(t, tries, saveOk) ==
    /\ loop.run[t].pc = "read"
    /\ Resumed(t, Answer(tries, "ok", saveOk))

\* the login and the POST of the command the coroutine in slot t sends end
CommandReturns(t, outcome) ==
    /\ loop.run[t].pc = "cmd"
    /\ Resumed(t, Answer(Always(Refused), outcome, TRUE))

\* the store's save returns to the coroutine in slot t
SaveReturns(t) ==
    /\ loop.run[t].pc = "save"
    /\ Resumed(t, Answer(Always(Refused), "ok", TRUE))

\* an operation behind a cache starts in slot t: r is where the lookup
\* leaves it, ended or suspended in the operation
Began(t, r) ==
    /\ last = Idle
    /\ Free(t)
    /\ cache' = r.cache
    /\ data' = Kept(r.me, data)
    /\ IF r.me.pc = "done"
       THEN /\ last' = r.me
            /\ loop' = [Sharing(loop, r.me) EXCEPT !.calls = @ + 1]
       ELSE /\ last' = last
            /\ loop' = Started(t, r.me)
    /\ UNCHANGED <<overrides, store, hasStore, device>>

\* an operation behind a cache is called
Begins(t, r) == Began(t, r) /\ UNCHANGED now

\* the list the coroutine me assigns to (none for most)
ListOf(me) ==
    IF "sm" \in DOMAIN me THEN me.sm.list
    ELSE IF "list" \in DOMAIN me THEN me.list
    ELSE NoList

\* the coroutine me, its list being list
WithList(me, list) ==
    IF "sm" \in DOMAIN me THEN [me EXCEPT !.sm.list = list] ELSE [me EXCEPT !.list = list]

\* the event loop once a setSummerModeAssignments has got as far as s: a
\* list just made is the one the cache holds, and the coroutines that hold
\* the list s assigns to see what it assigned
Listed(s) ==
    [loop EXCEPT !.lists = Max(@, s.list.id),
                 !.list = IF s.list.id > loop.lists THEN s.list.id ELSE @,
                 !.run = [u \in TaskIds |->
                            IF s.list.id # 0 /\ ListOf(loop.run[u]).id = s.list.id
                            THEN WithList(loop.run[u], s.list)
                            ELSE loop.run[u]]]

\* the event loop once the cached read the coroutine was awaited has ended
\* as me: the list a getSummerModeAssignments() called on its own has made
\* (client.py:495) is a new one, and it is the one the cache holds; the dict
\* a getLowMode() has made outside an update (client.py:553-569) is a new
\* one too, and the cache holds it in place of the one in the
\* coordinator's data
Numbered(was, me) ==
    IF was.op = "getSummerModeAssignments" /\ me.net.raised = "none"
    THEN [loop EXCEPT !.lists = @ + 1, !.list = loop.lists + 1]
    ELSE IF was.fetch = "getLowMode" /\ was.op # "getAllData" /\ me.net.raised = "none"
    THEN [loop EXCEPT !.low = FALSE]
    ELSE loop

\* the event loop lp, the handler having constructed a TemperatureOverride
\* for circuit c if put
Made(lp, c, put) == IF put THEN [lp EXCEPT !.obj[c] = @ + 1] ELSE lp

\* the call of setSummerModeAssignments the coroutine me is in: its own, or
\* the one async_set_hvac_mode awaits
CallOf(me) == IF me.op = "async_set_hvac_mode" THEN me.sm ELSE me

\* the cached read the coroutine in slot t awaits ends, its runs answered by
\* tries
FetchReturns(t, tries) ==
    /\ last = Idle
    /\ loop.run[t].pc = "fetch"
    /\ \E was \in {loop.run[t]} :
          IF was.op \in {"setSummerModeAssignments", "async_set_hvac_mode"}
          THEN \E s \in {afterAssignments(CallOf(was), cache, device, now, tries,
                                          loop.lists + 1)} :
                  /\ cache' = s.cache
                  /\ Handed(t, IF was.op = "async_set_hvac_mode"
                               THEN afterAssignmentsCall(was, s.me, overrides, store,
                                                         hasStore, now, cache, device,
                                                         data, TRUE).me
                               ELSE s.me,
                            Listed(s.me), data)
          ELSE \E r \in {fetched(was, cache, now, tries)} :
                  /\ cache' = r.cache
                  /\ Handed(t, r.me, Numbered(was, r.me), Kept(r.me, data))
    /\ UNCHANGED <<now, overrides, store, hasStore, device>>

\* the authenticate() that the setSummerModeAssignments of slot t awaits
\* ends (client.py:508), its POSTs ending as logins
LoginReturns(t, logins) ==
    /\ last = Idle
    /\ loop.run[t].pc = "login"
    /\ \E was \in {loop.run[t]} :
       \E s \in {afterAuthenticate(CallOf(was), cache, device, now, logins, loop.list)} :
          /\ cache' = s.cache
          /\ Handed(t, IF was.op = "async_set_hvac_mode"
                       THEN afterAssignmentsCall(was, s.me, overrides, store, hasStore,
                                                 now, cache, device, data, TRUE).me
                       ELSE s.me,
                    Listed(s.me), data)
    /\ UNCHANGED <<now, overrides, store, hasStore, device>>

\* the POST to /letoSaveRooms of the coroutine in slot t is answered with
\* post (client.py:515-524); a handler that goes on to set an override
\* hands the map to the store, which takes it or not (saveOk)
SaveRoomsReturns(t, post, saveOk) ==
    /\ last = Idle
    /\ loop.run[t].pc = "rooms"
    /\ \E was \in {loop.run[t]} :
       \E s \in {assignmentsPosted(CallOf(was), device, post)} :
       \E r \in {IF was.op = "async_set_hvac_mode"
                 THEN afterAssignmentsCall(was, s.me, overrides, store, hasStore, now,
                                           cache, s.device, data, saveOk)
                 ELSE Left(overrides, store, s.me, FALSE)} :
          /\ device' = s.device
          /\ overrides' = r.ov
          /\ store' = r.st
          /\ Handed(t, r.me, Made(loop, r.me.c, r.put), data)
    /\ UNCHANGED <<now, hasStore, cache>>

\* a handler of a switch entity has ended, the call it awaited having
\* returned
Turned(me) ==
    /\ "entity" \in DOMAIN me
    /\ me.pc = "done"
    /\ (IF "write" \in DOMAIN me THEN me.write.raised ELSE me.net.raised) = "none"

\* switch.py:81, 87: when setSummerMode has returned, whatever it returned,
\* the handler of the summer-mode switch writes the value it asked for into
\* the coordinator's data
summerModeWritten(me, d) ==
    IF Turned(me) THEN [d EXCEPT !.summer_mode = me.arg.value] ELSE d

\* the login and the POST to /saveSummerMode of the coroutine in slot t end
\* as att (client.py:471-479)
SaveSummerModeReturns(t, att, saveOk) ==
    /\ last = Idle
    /\ loop.run[t].pc = "mode"
    /\ \E was \in {loop.run[t]} :
       \E s \in {summerModeSaved(IF was.op = "async_set_hvac_mode" THEN was.mode ELSE was,
                                 device, att)} :
       \E r \in {IF was.op = "async_set_hvac_mode"
                 THEN afterModeCall(was, s.me, overrides, store, hasStore, now, data,
                                    saveOk)
                 ELSE Left(overrides, store, s.me, FALSE)} :
          /\ device' = s.device
          /\ overrides' = r.ov
          /\ store' = r.st
          /\ Handed(t, r.me, Made(loop, r.me.c, r.put), summerModeWritten(r.me, data))
    /\ UNCHANGED <<now, hasStore, cache>>

\* an operation that changes the summer-mode settings is called in slot t
\* and suspends as me
Sets(t, me) ==
    /\ last = Idle
    /\ Free(t)
    /\ loop' = Started(t, me)
    /\ UNCHANGED <<now, overrides, store, hasStore, last, cache, device, data>>

SetSummerModeAssignments(t, circuits, value) ==
    Sets(t, setSummerModeAssignments(circuits, value, now, device, Quiet))

SetSummerMode(t, value) == Sets(t, setSummerMode(value, now, cache, device, Quiet))

\* async_set_hvac_mode(hvac_mode, automatic) of the entity of circuit idx is
\* called in slot t.  There are entities once the coordinator has data
\* (__init__.py:36-38).
SetHvacMode(t, hvac_mode, idx, automatic, saveOk) ==
    /\ last = Idle
    /\ Free(t)
    /\ Len(data.circuits) > idx
    /\ \E r \in {async_set_hvac_mode(hvac_mode, idx, automatic, overrides, store,
                                      hasStore, now, cache, device, data, saveOk, Quiet)} :
          /\ overrides' = r.ov
          /\ store' = r.st
          /\ IF r.me.pc = "done"
             THEN /\ last' = r.me
                  /\ loop' = [loop EXCEPT !.calls = @ + 1]
             ELSE /\ last' = last
                  /\ loop' = Made(Started(t, r.me), idx, r.put)
    /\ UNCHANGED <<now, hasStore, cache, device, data>>

GetAllData(t) == Begins(t, getAllDataCalled(cache, now, Quiet))

\* no getAllData is in flight
NoPoll == \A u \in TaskIds : loop.run[u].op # "getAllData"

\* __init__.py:62  update_interval=timedelta(minutes=1)
UPDATE_INTERVAL == 60

\* the coordinator's periodic update (__init__.py:62-77): the interval has
\* passed since the update before it ended, and getAllData is called
Refresh(t, until) ==
    /\ now + UPDATE_INTERVAL <= until
    /\ NoPoll
    /\ now' = now + UPDATE_INTERVAL
    /\ Began(t, getAllDataCalled(cache, now + UPDATE_INTERVAL, Quiet))

\* the fields a /wholeRoom response may carry, and the runs of a read: the
\* device answers with them, or refuses every run
Readings == {[target |-> tg, user_offset |-> u] : tg \in DevTargets, u \in DevOffsets}
ReadTries == {Always(Answered(v)) : v \in Readings} \cup {Always(Refused)}

Next ==
    \/ Tick
    \/ Return
    \/ \E t \in TaskIds, c \in Circuits, skip \in BOOLEAN :
          Budget(MaxCalls) /\ GetCircuit(t, c, skip)
    \/ \E t \in TaskIds, c \in Managed, temperature \in Temps, duration \in Durations,
          saveOk \in BOOLEAN :
          Budget(MaxCalls) /\ SetTemperatureOverride(t, c, temperature, duration, saveOk)
    \/ \E t \in TaskIds, c \in Managed :
          Budget(MaxCalls) /\ RemoveTemperatureOverride(t, c)
    \/ \E t \in TaskIds, tries \in ReadTries, saveOk \in BOOLEAN :
          ReadReturns(t, tries, saveOk)
    \/ \E t \in TaskIds, outcome \in Outcomes : CommandReturns(t, outcome)
    \/ \E t \in TaskIds : SaveReturns(t)

Spec == Init /\ [][Next]_vars

\* ---- operations that overlap on one circuit ----

\* the operations called in one behaviour
RaceMaxCalls == 3

\* the device reports the scheduled temperature with an offset: a target
\* that differs from every override's
RaceReading == [target |-> 200, user_offset |-> 20]

\* The managed circuit is read, and its override set and removed, by up to
\* RaceMaxCalls calls, two of them at a time; the device answers every read,
\* and the store takes every payload.
NextRace ==
    \/ Tick
    \/ Return
    \/ \E t \in TaskIds, c \in Managed : Budget(RaceMaxCalls) /\ GetCircuit(t, c, FALSE)
    \/ \E t \in TaskIds, c \in Managed, temperature \in Temps, duration \in Durations :
          Budget(RaceMaxCalls) /\ SetTemperatureOverride(t, c, temperature, duration, TRUE)
    \/ \E t \in TaskIds, c \in Managed :
          Budget(RaceMaxCalls) /\ RemoveTemperatureOverride(t, c)
    \/ \E t \in TaskIds : ReadReturns(t, Always(Answered(RaceReading)), TRUE)
    \/ \E t \in TaskIds, outcome \in Outcomes : CommandReturns(t, outcome)
    \/ \E t \in TaskIds : SaveReturns(t)

SpecRace == Init /\ [][NextRace]_vars

\* ---- the client constructed from what the store holds ----

\* the keyword arguments TemperatureOverride.__init__ takes
OverrideKeys == {"temperature", "created_at", "stop_at"}

\* TemperatureOverride(**value) raises TypeError unless the keys of value
\* are exactly the parameters of __init__ (none has a default)
Accepted(value) == DOMAIN value = OverrideKeys

\* TemperatureOverride(**value): the values are taken as they are
deserialize(value) ==
    TemperatureOverride(value.temperature, value.created_at, value.stop_at)

\* Bmr.__init__(..., overrides=persisted, ...): the loop of client.py:67-69
\* has no exception handling, so the first entry that is not accepted ends
\* the construction with its TypeError; otherwise every entry is loaded
construct(persisted) ==
    IF \A k \in DOMAIN persisted : Accepted(persisted[k])
    THEN [raised |-> FALSE,
          ov     |-> [k \in DOMAIN persisted |-> deserialize(persisted[k])]]
    ELSE [raised |-> TRUE, ov |-> <<>>]

\* the overrides a client may hold in memory for the circuit callers manage
LoadStamps == {0, TickStep}
MemoryEntries ==
    {o \in [temperature : {210}, created_at : {0}, last_set : LoadStamps,
            stop_at : {None, TickStep}, disabled_at : {None, TickStep}] :
        o.disabled_at # None => o.stop_at # None}
MemoryMaps ==
    {<<>>} \cup {Put(<<>>, c, o) : c \in Managed, o \in MemoryEntries}

\* the entries a store file may hold: as serialize() writes them, with a key
\* missing, or with the keys of the documented record shape
StoredEntries ==
    {serialize(TemperatureOverride(tp, 0, st)) : tp \in {210}, st \in {None, TickStep}}
    \cup {[temperature |-> 210, created_at |-> 0]}
    \cup {[temperature |-> 210, created_at |-> 0, stop_at |-> TickStep,
           disabled_at |-> None, last_set |-> 0]}
StoredMaps ==
    UNION {[D -> StoredEntries] : D \in SUBSET Circuits}

InitLoad ==
    /\ now = 0
    /\ overrides \in MemoryMaps
    /\ store \in StoredMaps
    /\ hasStore = TRUE
    /\ last = Idle
    /\ cache = NoCache
    /\ device = InitialDevice
    /\ loop = NoLoop
    /\ data = NoData

\* storeOverrides() on its own: the map is written to the store
StoreOverrides(saveOk) ==
    /\ last = Idle
    /\ \E r \in {storeOverrides(overrides, store, hasStore, saveOk)} :
        /\ store' = r.st
        /\ last' = [op |-> "storeOverrides", raised |-> r.raised]
    /\ UNCHANGED <<now, overrides, hasStore, cache, device, loop, data>>

\* the integration is set up again: a new client is constructed from the
\* store's contents
Construct ==
    /\ last = Idle
    /\ \E r \in {construct(store)} :
        /\ overrides' = r.ov
        /\ last' = [op |-> "__init__", persisted |-> store, preMap |-> overrides,
                    raised |-> r.raised]
    /\ UNCHANGED <<now, store, hasStore, cache, device, loop, data>>

\* ---- async_setup_entry ----

\* the parameters of Bmr.__init__ after self, in order (client.py:55-61)
BmrParams ==
    <<"base_url", "user", "password", "can_cool", "session", "overrides",
      "overrides_store">>

\* the arguments of the call of __init__.py:30-31, all passed by position:
\* three strings, the HTTP session, what store.async_load() returned, the
\* store.  An argument is the kind of object it is, with the entries when
\* it is the loaded dictionary.
SetupArgs(persisted) ==
    <<[kind |-> "str"], [kind |-> "str"], [kind |-> "str"], [kind |-> "session"],
      [kind |-> "dict", entries |-> persisted], [kind |-> "store"]>>

\* the argument a parameter is bound to: positional arguments are bound in
\* order, a parameter left over takes its default (None for overrides and
\* overrides_store)
Bound(params, args, name) ==
    LET i == CHOOSE k \in 1..Len(params) : params[k] = name
    IN  IF i <= Len(args) THEN args[i] ELSE [kind |-> "none"]

\* Bmr.__init__ on the arguments as bound (client.py:62-72): overrides.items()
\* exists on a dictionary only; the store is kept as it was bound
init(args) ==
    LET o  == Bound(BmrParams, args, "overrides")
        st == Bound(BmrParams, args, "overrides_store")
    IN  IF o.kind = "none"
        THEN [raised |-> "none", ov |-> <<>>, keepsStore |-> st.kind = "store"]
        ELSE IF o.kind # "dict"
        THEN [raised |-> "AttributeError", ov |-> <<>>, keepsStore |-> FALSE]
        ELSE IF construct(o.entries).raised
        THEN [raised |-> "TypeError", ov |-> <<>>, keepsStore |-> FALSE]
        ELSE [raised |-> "none", ov |-> construct(o.entries).ov,
              keepsStore |-> st.kind = "store"]

\* async_setup_entry (__init__.py:26-31): the store is loaded and the client
\* constructed; when the constructor raises there is no client
SetupEntry ==
    /\ last = Idle
    /\ \E r \in {init(SetupArgs(store))} :
        /\ overrides' = r.ov
        /\ hasStore' = r.keepsStore
        /\ last' = [op |-> "async_setup_entry", persisted |-> store,
                    failure |-> r.raised]
    /\ UNCHANGED <<now, store, cache, device, loop, data>>

NextLoad ==
    \/ Return
    \/ \E saveOk \in BOOLEAN : StoreOverrides(saveOk)
    \/ Construct
    \/ SetupEntry

SpecLoad == InitLoad /\ [][NextLoad]_vars
\* ---- the encoding operations ----

RECURSIVE Concat(_)
Concat(ss) == IF ss = <<>> THEN <<>> ELSE Head(ss) \o Concat(Tail(ss))

\* the 13 characters of the name field of setSchedule, not modelled further
NameField == [i \in 1..13 |-> "n"]

\* setSchedule(schedule_id, name, timetable): the login comes first, then
\* the test of the first entry's time, then the POST to /saveMode
setSchedule(schedule_id, timetable, att) ==
    LET a == authenticate(att.logins)
        param == ZeroPad(schedule_id, 2) \o NameField \o
                 Concat([i \in 1..Len(timetable) |->
                            <<timetable[i].time>> \o ZeroPad(timetable[i].temperature, 3)])
    IN  IF a.raised # "none"
        THEN Wrote(a.posts, 0, <<>>, a.raised, FALSE)
        ELSE IF timetable[1].time # "00:00"
        THEN Wrote(a.posts, 0, <<>>, "Exception", FALSE)
        ELSE IF att.post.status # 200
        THEN Wrote(a.posts, 1, param, "Exception", FALSE)
        ELSE Wrote(a.posts, 1, param, "none", att.post.body = "data" /\ att.post.v = 1)

\* the number of day slots of a circuit
DAY_SLOTS == 21

\* day_schedules += [None ...]: filled up to 21 entries
Padded(day_schedules) ==
    day_schedules \o [i \in 1..(DAY_SLOTS - Len(day_schedules)) |-> None]

\* client.py:724-726: an undefined entry followed by a defined one
HasGap(days) == \E i \in 1..(Len(days) - 1) : days[i] = None /\ days[i + 1] # None

\* setCircuitSchedules(circuit_id, day_schedules, starting_day): the gap test
\* comes before the login
setCircuitSchedules(circuit_id, day_schedules, starting_day, att) ==
    LET days == Padded(day_schedules)
    IN  IF HasGap(days)
        THEN Wrote(0, 0, <<>>, "Exception", FALSE)
        ELSE LoginAndPost(ZeroPad(circuit_id, 2) \o ZeroPad(starting_day, 2) \o
                          Concat([i \in 1..Len(days) |->
                                     ZeroPad(IF days[i] # None THEN days[i] ELSE -1, 2)]),
                          att)

\* client.py:872-878: the position code of a shutter
BmrPos(pos) ==
    IF pos > 90 THEN 0 ELSE IF pos > 45 THEN 3 ELSE IF pos > 15 THEN 2 ELSE 1

\* saveManualChange(shutter_id, pos, tilt): the asserts come before the
\* login; every exception is caught and turned into False
saveManualChange(shutter_id, pos, tilt, att) ==
    IF ~(0 <= shutter_id /\ shutter_id <= 32 /\ 0 <= pos /\ pos <= 100
         /\ 0 <= tilt /\ tilt <= 100)
    THEN Wrote(0, 0, <<>>, "none", FALSE)
    ELSE [LoginAndPost(ZeroPad(shutter_id, 2) \o ZeroPad(BmrPos(pos), 1) \o
                       ZeroPad((100 - tilt) \div 10, 2), att)
          EXCEPT !.raised = "none"]

\* ---- decoding /wholeRoom ----

\* float(s) / int(s) of a field: None stands for a text that does not parse
\* (ValueError)
Parses(field) == field # None

\* the body of getCircuit between the response and the reconciliation
\* (client.py:234-311).  text is the response split at the byte offsets of
\* the pattern, with matched telling whether the pattern matched at all.
\* bool(int(enabled)) is evaluated outside any try; the other fields are
\* converted one by one, each in its own try.
decodeCircuit(text) ==
    IF ~text.matched
    THEN [raised |-> "Exception", ret |-> None]
    ELSE IF ~Parses(text.enabled)
    THEN [raised |-> "ValueError", ret |-> None]
    ELSE [raised |-> "none",
          ret |-> [enabled            |-> text.enabled # 0,
                   temperature        |-> text.temperature,
                   target_temperature |-> text.target_temperature,
                   user_offset        |-> text.user_offset,
                   max_offset         |-> text.max_offset,
                   heating            |-> Parses(text.heating) /\ text.heating # 0,
                   cooling            |-> Parses(text.cooling) /\ text.cooling # 0,
                   low_mode           |-> Parses(text.low_mode) /\ text.low_mode # 0,
                   summer_mode        |-> Parses(text.summer_mode) /\ text.summer_mode # 0,
                   warning            |-> IF Parses(text.warning) THEN text.warning ELSE 0,
                   target_temperature_raw |-> text.target_temperature]]

\* ---- decoding /roomSettings ----

\* the loop of client.py:696-712 from slot idx on (idx counts from 0), with
\* an undefined slot passed over instead of ending the loop
RECURSIVE daySchedules_SkipGaps(_, _, _)
daySchedules_SkipGaps(slots, idx, result) ==
    IF idx >= Len(slots)
    THEN [raised |-> "none", ret |-> result]
    ELSE LET schedule_id == slots[idx + 1]
         IN  IF ~Parses(schedule_id)
             THEN [raised |-> "ValueError", ret |-> None]
             ELSE IF schedule_id = -1
             THEN daySchedules_SkipGaps(slots, idx + 1, result)
             ELSE daySchedules_SkipGaps(slots, idx + 1,
                     [result EXCEPT
                        !.day_schedules = Append(@, schedule_id % 32),
                        !.current_day = IF (schedule_id % 64) >= 32
                                        THEN idx + 1 ELSE @])

\* the loop of client.py:696-712 from slot idx on (idx counts from 0):
\* int() of the slot, the loop left at the first -1, otherwise the low 5
\* bits appended and current_day set when bit 5 is set.  On Python's
\* integers x & 0b11111 is x modulo 32 and x & 0b100000 is set when x
\* modulo 64 is at least 32, for negative x as well.
RECURSIVE daySchedules(_, _, _)
daySchedules(slots, idx, result) ==
    IF idx >= Len(slots)
    THEN [raised |-> "none", ret |-> result]
    ELSE LET schedule_id == slots[idx + 1]
         IN  IF ~Parses(schedule_id)
             THEN [raised |-> "ValueError", ret |-> None]
             ELSE IF schedule_id = -1
             THEN [raised |-> "none", ret |-> result]
             ELSE daySchedules(slots, idx + 1,
                     [result EXCEPT
                        !.day_schedules = Append(@, schedule_id % 32),
                        !.current_day = IF (schedule_id % 64) >= 32
                                        THEN idx + 1 ELSE @])

\* the body of getCircuitSchedules after the response (client.py:668-713).
\* text is the response split by the pattern: the starting day and the 21
\* two-character slots, with matched telling whether the pattern matched.
decodeCircuitSchedules(text) ==
    IF ~text.matched
    THEN [raised |-> "Exception", ret |-> None]
    ELSE daySchedules(text.day_schedules, 0,
                      [starting_day  |-> text.starting_day,
                       current_day   |-> None,
                       day_schedules |-> <<>>])

\* ---- bmr_hash ----

\* Strings are sequences of code points here (ord(c) of each character);
\* what is produced is a sequence of characters.

\* a ^ b on non-negative integers, bit by bit
RECURSIVE xor(_, _)
xor(a, b) ==
    IF a = 0 /\ b = 0
    THEN 0
    ELSE (((a % 2) + (b % 2)) % 2) + (2 * xor(a \div 2, b \div 2))

\* hex(n)[2:] for n >= 0: the hexadecimal digits, letters in lower case
RECURSIVE hex(_)
hex(n) ==
    LET digit(d) == <<"0", "1", "2", "3", "4", "5", "6", "7", "8", "9",
                      "a", "b", "c", "d", "e", "f">>[d + 1]
    IN  IF n < 16 THEN <<digit(n)>> ELSE hex(n \div 16) \o <<digit(n % 16)>>

\* s.zfill(w): zeros in front up to w characters; never cut
zfill(s, w) == Zeros(w - Len(s)) \o s

\* s.upper() of hexadecimal digits
upper(s) ==
    [i \in 1..Len(s) |->
        CASE s[i] = "a" -> "A" [] s[i] = "b" -> "B" [] s[i] = "c" -> "C"
          [] s[i] = "d" -> "D" [] s[i] = "e" -> "E" [] s[i] = "f" -> "F"
          [] OTHER -> s[i]]

\* the loop of bmr_hash with the value xored into every character given
RECURSIVE hashWith(_, _)
hashWith(value, mask) ==
    IF value = <<>>
    THEN <<>>
    ELSE zfill(hex(xor(Head(value), mask)), 2) \o hashWith(Tail(value), mask)

\* bmr_hash with day >> 2 in place of day << 2
bmr_hash_ShiftRight(value, day) == upper(hashWith(value, day \div 4))

\* bmr_hash(value) on the given day of the month (date.today().day):
\* ord(c) ^ (day << 2) of every character, in two or more hexadecimal
\* digits, joined and put in upper case
bmr_hash(value, day) == upper(hashWith(value, day * 4))

\* ---- /wholeRoom split by position ----

\* A response text is a sequence of characters here.

\* the groups of the pattern without the 3-character target string
RoomPattern_NoTargetStr ==
    <<[key |-> "enabled", width |-> 1], [key |-> "name", width |-> 13],
      [key |-> "temperature", width |-> 5],
      [key |-> "target_temperature", width |-> 5],
      [key |-> "user_offset", width |-> 5], [key |-> "max_offset", width |-> 4],
      [key |-> "heating", width |-> 1], [key |-> "window_heating", width |-> 1],
      [key |-> "card", width |-> 1], [key |-> "warning", width |-> 3],
      [key |-> "low_mode", width |-> 1], [key |-> "summer_mode", width |-> 1],
      [key |-> "cooling", width |-> 1]>>

\* the groups of the pattern of client.py:234-249, in order: (?P<key>.{width})
RoomPattern ==
    <<[key |-> "enabled", width |-> 1], [key |-> "name", width |-> 13],
      [key |-> "temperature", width |-> 5],
      [key |-> "target_temperature_str", width |-> 3],
      [key |-> "target_temperature", width |-> 5],
      [key |-> "user_offset", width |-> 5], [key |-> "max_offset", width |-> 4],
      [key |-> "heating", width |-> 1], [key |-> "window_heating", width |-> 1],
      [key |-> "card", width |-> 1], [key |-> "warning", width |-> 3],
      [key |-> "low_mode", width |-> 1], [key |-> "summer_mode", width |-> 1],
      [key |-> "cooling", width |-> 1]>>

\* the number of characters the first k groups take
RECURSIVE widthOf(_)
widthOf(k) == IF k = 0 THEN 0 ELSE widthOf(k - 1) + RoomPattern[k].width

\* re.match: the text has a character other than a newline for every
\* position of the pattern; what follows is not looked at
roomMatches(text) ==
    /\ Len(text) >= widthOf(Len(RoomPattern))
    /\ \A i \in 1..widthOf(Len(RoomPattern)) : text[i] # "\n"

\* match.groupdict()[key] of a text that matches
roomGroup(text, key) ==
    LET k == CHOOSE i \in 1..Len(RoomPattern) : RoomPattern[i].key = key
    IN  SubSeq(text, widthOf(k - 1) + 1, widthOf(k))

\* the value of a decimal digit, None for any other character
digitValue(ch) ==
    CASE ch = "0" -> 0 [] ch = "1" -> 1 [] ch = "2" -> 2 [] ch = "3" -> 3
      [] ch = "4" -> 4 [] ch = "5" -> 5 [] ch = "6" -> 6 [] ch = "7" -> 7
      [] ch = "8" -> 8 [] ch = "9" -> 9 [] OTHER -> None

\* the number a run of decimal digits writes, None when the run is empty or
\* holds another character
RECURSIVE digitsValue(_)
digitsValue(chars) ==
    IF chars = <<>>
    THEN None
    ELSE IF digitValue(chars[Len(chars)]) = None
    THEN None
    ELSE IF Len(chars) = 1
    THEN digitValue(chars[1])
    ELSE IF digitsValue(SubSeq(chars, 1, Len(chars) - 1)) = None
    THEN None
    ELSE 10 * digitsValue(SubSeq(chars, 1, Len(chars) - 1)) + digitValue(chars[Len(chars)])

\* int(field) of a run of digits; None (ValueError) for the malformed fields
\* the controller sends.  Other spellings int() accepts (a sign, blanks
\* around, underscores) are not among the texts enumerated.
toInt(field) == digitsValue(field)

\* float(field), in tenths, of a field in the controller's format: an
\* optional sign, digits, a point, one digit; None (ValueError) for the
\* malformed fields the controller sends ("-1-1-", NULs).  Other spellings
\* float() accepts (exponents, more decimals, blanks around) are not among
\* the texts enumerated.
toFloat(field) ==
    LET signed == Len(field) >= 1 /\ field[1] \in {"+", "-"}
        body   == IF signed THEN Tail(field) ELSE field
        n      == Len(body)
    IN  IF n < 3 \/ body[n - 1] # "."
           \/ digitsValue(SubSeq(body, 1, n - 2)) = None
           \/ digitValue(body[n]) = None
        THEN None
        ELSE LET v == 10 * digitsValue(SubSeq(body, 1, n - 2)) + digitValue(body[n])
             IN  IF signed /\ field[1] = "-" THEN -v ELSE v

\* the groups of a response, each converted as client.py:267-308 converts it
roomFields(text) ==
    IF ~roomMatches(text)
    THEN [matched |-> FALSE, enabled |-> None, temperature |-> None,
          target_temperature |-> None, user_offset |-> None, max_offset |-> None,
          heating |-> None, cooling |-> None, low_mode |-> None,
          summer_mode |-> None, warning |-> None]
    ELSE [matched            |-> TRUE,
          enabled            |-> toInt(roomGroup(text, "enabled")),
          temperature        |-> toFloat(roomGroup(text, "temperature")),
          target_temperature |-> toFloat(roomGroup(text, "target_temperature")),
          user_offset        |-> toFloat(roomGroup(text, "user_offset")),
          max_offset         |-> toFloat(roomGroup(text, "max_offset")),
          heating            |-> toInt(roomGroup(text, "heating")),
          cooling            |-> toInt(roomGroup(text, "cooling")),
          low_mode           |-> toInt(roomGroup(text, "low_mode")),
          summer_mode        |-> toInt(roomGroup(text, "summer_mode")),
          warning            |-> toInt(roomGroup(text, "warning"))]

\* the body of getCircuit from the response text to the result dictionary
\* (client.py:234-311), the name included
decodeWholeRoom(text) ==
    LET d == decodeCircuit(roomFields(text))
    IN  [raised |-> d.raised,
         name   |-> IF d.raised = "none" THEN rstrip(roomGroup(text, "name")) ELSE <<>>,
         ret    |-> d.ret]

\* ---- the client asked to encode and decode ----

\* the answers of the device during one write
WriteAttempts == {Answered(1), Refused, Attempt(AllRejected, Post(200, "data", 1))}

\* the timetables, day lists and shutter arguments callers pass
Timetables ==
    {<<[time |-> tm, temperature |-> 21]>> \o rest :
        tm \in {"00:00", "06:00"},
        rest \in {<<>>, <<[time |-> "18:00", temperature |-> 19]>>}}
CodecIds == {-5, 0, 7, 99, 100}
DayLists == {<<>>, <<1>>, <<1, 2>>, <<None, 1>>, <<1, None, 2>>}
ShutterIds == {-1, 0, 32, 33}
Percents == {-1, 0, 50, 100, 101}

\* the /wholeRoom bodies the device may send
RoomTexts ==
    [matched : BOOLEAN, enabled : {None, 0, 1},
     temperature : {None, 215}, target_temperature : {None, 200},
     user_offset : {None, 20}, max_offset : {None, 50},
     heating : {None, 0, 1}, cooling : {None, 1}, low_mode : {None, 1},
     summer_mode : {None, 1}, warning : {None, 3}]

\* ---- Python floats ----

\* A Python float is an IEEE 754 double: a sign and a magnitude m * 2^e with
\* 2^52 <= m < 2^53 (m = 0, e = 0 for zero).  m does not fit a machine
\* integer: it is held as its digits in base 2^16, the lowest first and the
\* highest not 0 (<<>> is zero).  Temperatures are far from the largest and
\* the smallest doubles: overflow, subnormals, infinities and NaN are left
\* out.
Precision == 53

Pow2(k) == <<1, 2, 4, 8, 16, 32, 64, 128, 256, 512, 1024, 2048, 4096, 8192,
             16384, 32768, 65536>>[k + 1]

Base == Pow2(16)

\* the digits of a natural number, and the number they spell
RECURSIVE digits(_)
digits(n) == IF n = 0 THEN <<>> ELSE <<n % Base>> \o digits(n \div Base)

RECURSIVE natural(_)
natural(b) == IF b = <<>> THEN 0 ELSE b[1] + (Base * natural(Tail(b)))

RECURSIVE trim(_)
trim(b) ==
    IF b # <<>> /\ b[Len(b)] = 0 THEN trim(SubSeq(b, 1, Len(b) - 1)) ELSE b

\* a + b + carry
RECURSIVE sum(_, _, _)
sum(a, b, carry) ==
    IF a = <<>> /\ b = <<>>
    THEN digits(carry)
    ELSE LET s == (IF a = <<>> THEN 0 ELSE a[1]) + (IF b = <<>> THEN 0 ELSE b[1]) + carry
         IN  <<s % Base>> \o sum(IF a = <<>> THEN a ELSE Tail(a),
                                 IF b = <<>> THEN b ELSE Tail(b), s \div Base)

\* a - b - borrow, for a >= b + borrow (the high zeros are left in)
RECURSIVE difference(_, _, _)
difference(a, b, borrow) ==
    IF a = <<>>
    THEN <<>>
    ELSE LET d == a[1] - (IF b = <<>> THEN 0 ELSE b[1]) - borrow
         IN  <<d % Base>> \o difference(Tail(a), IF b = <<>> THEN b ELSE Tail(b),
                                         IF d < 0 THEN 1 ELSE 0)

\* a < b, for a and b without high zeros
RECURSIVE lessFrom(_, _, _)
lessFrom(a, b, i) ==
    IF i = 0 THEN FALSE
    ELSE IF a[i] # b[i] THEN a[i] < b[i]
    ELSE lessFrom(a, b, i - 1)

less(a, b) == IF Len(a) # Len(b) THEN Len(a) < Len(b) ELSE lessFrom(a, b, Len(a))

\* b * k + carry for a k of at most 2^15
RECURSIVE times(_, _, _)
times(b, k, carry) ==
    IF b = <<>>
    THEN digits(carry)
    ELSE LET p == (b[1] * k) + carry
         IN  <<p % Base>> \o times(Tail(b), k, p \div Base)

\* quotient and remainder of b by a d of at most 2^15: long division from
\* the highest digit i down, r the remainder and q the quotient digits so far
RECURSIVE quotientFrom(_, _, _, _, _)
quotientFrom(b, d, i, r, q) ==
    IF i = 0
    THEN [q |-> trim(q), r |-> r]
    ELSE quotientFrom(b, d, i - 1, ((Base * r) + b[i]) % d,
                      <<((Base * r) + b[i]) \div d>> \o q)

quotient(b, d) == quotientFrom(b, d, Len(b), 0, <<>>)

\* k digits 0
RECURSIVE zeroDigits(_)
zeroDigits(k) == IF k <= 0 THEN <<>> ELSE <<0>> \o zeroDigits(k - 1)

\* b * 2^k, and b \div 2^k
shiftLeft(b, k) ==
    IF b = <<>> THEN b
    ELSE zeroDigits(k \div 16) \o trim(times(b, Pow2(k % 16), 0))

shiftRight(b, k) ==
    IF k \div 16 >= Len(b) THEN <<>>
    ELSE quotient(SubSeq(b, (k \div 16) + 1, Len(b)), Pow2(k % 16)).q

\* the number of binary digits of b
bitLength(b) ==
    IF b = <<>> THEN 0
    ELSE (16 * (Len(b) - 1))
            + (CHOOSE n \in 1..16 : Pow2(n - 1) <= b[Len(b)] /\ b[Len(b)] < Pow2(n))

Double(neg, m, e) == [neg |-> neg, m |-> m, e |-> e]

\* the double of value m * 2^e, for an m of at most 53 binary digits
exact(neg, m, e) ==
    IF m = <<>> THEN Double(FALSE, <<>>, 0)
    ELSE LET up == Precision - bitLength(m)
         IN  Double(neg, shiftLeft(m, up), e - up)

\* the double nearest to m * 2^e (plus a fraction of 2^e when inexact), ties
\* to the even one: the rounding of every float operation
nearest(neg, m, e, inexact) ==
    LET drop == bitLength(m) - Precision
    IN  IF drop <= 0
        THEN exact(neg, m, e)
        ELSE LET kept == shiftRight(m, drop)
                 low  == trim(difference(m, shiftLeft(kept, drop), 0))
                 half == shiftLeft(<<1>>, drop - 1)
                 up   == \/ less(half, low)
                         \/ low = half /\ (inexact \/ kept[1] % 2 = 1)
                 r    == IF up THEN sum(kept, <<>>, 1) ELSE kept
             IN  IF bitLength(r) > Precision
                 THEN Double(neg, shiftRight(r, 1), e + drop + 1)
                 ELSE Double(neg, r, e + drop)

\* float("n.d") and the float a caller passes, written in decimal with
\* `scale` = 10 or 100 for one or two decimals: the double nearest n / scale
\* (the quotient is taken with 64 more binary digits than n has)
float(n, scale) ==
    LET w == quotient(shiftLeft(digits(IF n < 0 THEN -n ELSE n), 64), scale)
    IN  nearest(n < 0, w.q, -64, w.r # 0)

\* x + y
float_add(x, y) ==
    LET e  == IF x.e < y.e THEN x.e ELSE y.e
        mx == shiftLeft(x.m, x.e - e)
        my == shiftLeft(y.m, y.e - e)
    IN  IF x.m = <<>> THEN y
        ELSE IF y.m = <<>> THEN x
        ELSE IF x.neg = y.neg
        THEN nearest(x.neg, sum(mx, my, 0), e, FALSE)
        ELSE IF less(mx, my)
        THEN nearest(y.neg, trim(difference(my, mx, 0)), e, FALSE)
        ELSE nearest(x.neg, trim(difference(mx, my, 0)), e, FALSE)

\* x - y
float_sub(x, y) == float_add(x, [y EXCEPT !.neg = y.m # <<>> /\ ~y.neg])

\* x * k for a whole k of at most 2^15
float_mul(x, k) == nearest(x.neg, trim(times(x.m, k, 0)), x.e, FALSE)

\* abs(x)
float_abs(x) == [x EXCEPT !.neg = FALSE]

\* x < 0
float_negative(x) == x.neg /\ x.m # <<>>

\* int(x): the fraction cut
float_int(x) ==
    LET whole == IF x.e >= 0 THEN shiftLeft(x.m, x.e) ELSE shiftRight(x.m, -x.e)
    IN  IF x.neg THEN -natural(whole) ELSE natural(whole)

\* ---- setManualTemp: the form field ----

\* The targets of this section are in hundredths of a degree, so that an
\* offset can fall between two tenths; setManualTemp gets them as floats.

\* int(abs(offset)*10): the tenths in the magnitude of offset, the rest cut
tenths(offset) == float_int(float_mul(float_abs(offset), 10))

\* offset = new_target - current_target
\* "{:02}{}{:03}".format(circuit_id, "-" if offset < 0 else "0",
\*                       int(abs(offset)*10))
manualTempParam(circuit_id, new_target, current_target) ==
    LET offset == float_sub(new_target, current_target)
    IN  ZeroPad(circuit_id, 2) \o <<IF float_negative(offset) THEN "-" ELSE "0">>
           \o ZeroPad(tenths(offset), 3)

\* target_temperature - user_offset of the floats a read decoded (client.py
\* 147 and 325), the fields given in tenths as the controller prints them
scheduledTemperature(target, user_offset) ==
    float_sub(float(target, 10), float(user_offset, 10))

\* the form field an override posts.  setTemperatureOverride calls
\* setManualTemp(circuit_id, temperature), which reads the circuit and takes
\* the offset from target - user offset, or from new_target itself when one
\* of them did not parse; a re-issue passes raw - user_offset, computed from
\* the read being reconciled.
overrideParam(circuit_id, temperature, target, user_offset) ==
    manualTempParam(circuit_id, float(temperature, 10),
                    IF target # None /\ user_offset # None
                    THEN scheduledTemperature(target, user_offset)
                    ELSE float(temperature, 10))

\* the override temperatures asked for and the fields the controller reports,
\* in tenths
OverrideTemps == {70, 215, 220}
ReportedTargets == {None, 200, 206, 213, 219}
ReportedOffsets == {None, -5, 0, 6}

\* the targets asked for and the targets the circuit has, in hundredths
NewTargets == {700, 2000, 2025, 2075, 2200}
CurrentTargets == {2000, 2050, 2130, 12500}

\* the texts of one slot: "-1", a schedule id, a schedule id with the
\* active flag (33 = 1 + 32, 40 = 8 + 32), another negative number, and
\* two characters int() refuses (None)
SlotTexts == {-1, 1, 33, 40, -5, None}

\* the first slots the device sends, the rest being "-1"
SlotHeads ==
    {<<>>} \cup {<<a>> : a \in SlotTexts}
           \cup {<<a, b>> : a \in SlotTexts, b \in SlotTexts}
           \cup {<<a, b, c>> : a \in SlotTexts, b \in SlotTexts, c \in SlotTexts}

\* the /roomSettings bodies the device may send: the heads filled up to 21
\* slots with "-1", and one body with all 21 days configured
ScheduleTexts ==
    [matched : BOOLEAN, starting_day : {1, 8},
     day_schedules :
        {head \o [i \in 1..(DAY_SLOTS - Len(head)) |-> -1] : head \in SlotHeads}
        \cup {[i \in 1..DAY_SLOTS |-> IF i = DAY_SLOTS THEN 33 ELSE 1]}]

\* the days of the month, and the user names and passwords hashed: the
\* empty string, "a", "A1", a control character (one hexadecimal digit
\* before the padding) and a character outside Latin-1 (three digits)
Days == 1..31
HashValues == {<<>>, <<97>>, <<65, 49>>, <<3>>, <<1234>>}

\* the /wholeRoom texts the device may send: the example of the
\* specification and the one of the docstring (client.py:205), texts put
\* together from well-formed and malformed fields, and a text cut short
SpecExample == <<"1", "P", "o", "k", "o", "j", " ", " ", " ", " ", " ", " ", " ", " ", "0", "2", "1", ".", "7", "2", "0", "2", "0", "1", "2", ".", "0", "0", "0", "0", ".", "0", "0", "0", ".", "0", "0", "0", "0", "0", "0", "0", "0", "0", "0">>
DocExample == <<"1", "P", "o", "k", "o", "j", " ", "2", "0", "2", " ", "v", " ", " ", "0", "2", "1", ".", "7", "+", "1", "2", "0", "1", "2", ".", "0", "0", "0", "0", ".", "0", "0", "0", ".", "0", "0", "0", "0", "0", "0", "0", "0", "0", "0">>
Blanks(n) == [i \in 1..n |-> " "]
WholeRoomTexts ==
    {SpecExample, DocExample, SubSeq(SpecExample, 1, Len(SpecExample) - 1)}
    \cup {enabled \o name \o temperature \o <<"+", "2", "1">> \o target \o user_offset
             \o <<"0", "5", ".", "0">> \o flags :
            enabled \in {<<"1">>, <<"0">>, <<" ">>},
            name \in {<<"P", "o", "k", "o", "j">> \o Blanks(8), Blanks(13)},
            temperature \in {<<"0", "2", "1", ".", "7">>, <<"-", "1", "-", "1", "-">>},
            target \in {<<"0", "2", "1", ".", "0">>, <<"0", "0", "?", "?", "?">>},
            user_offset \in {<<"0", "0", "0", ".", "0">>, <<"-", "0", "1", ".", "5">>},
            flags \in {<<"1", "0", "0", "0", "1", "2", "0", "1", "1">>, <<"0", "0", "?", "0", "?", "0", "0", "?", "0">>}}

\* the record of an encoding or decoding operation that ran last
LastCodec(op, arg, net) == [op |-> op, arg |-> arg, net |-> net]

SetSchedule(schedule_id, timetable, att) ==
    /\ last = Idle
    /\ last' = LastCodec("setSchedule",
                         [schedule_id |-> schedule_id, timetable |-> timetable],
                         setSchedule(schedule_id, timetable, att))
    /\ UNCHANGED <<now, overrides, store, hasStore, cache, device, loop, data>>

SetCircuitSchedules(circuit_id, day_schedules, att) ==
    /\ last = Idle
    /\ last' = LastCodec("setCircuitSchedules",
                         [circuit_id |-> circuit_id, day_schedules |-> day_schedules],
                         setCircuitSchedules(circuit_id, day_schedules, 1, att))
    /\ UNCHANGED <<now, overrides, store, hasStore, cache, device, loop, data>>

SaveManualChange(shutter_id, pos, tilt, att) ==
    /\ last = Idle
    /\ last' = LastCodec("saveManualChange",
                         [shutter_id |-> shutter_id, pos |-> pos, tilt |-> tilt],
                         saveManualChange(shutter_id, pos, tilt, att))
    /\ UNCHANGED <<now, overrides, store, hasStore, cache, device, loop, data>>

DecodeCircuit(text) ==
    /\ last = Idle
    /\ last' = LastCodec("getCircuit", text, decodeCircuit(text))
    /\ UNCHANGED <<now, overrides, store, hasStore, cache, device, loop, data>>

SendManualTemp(circuit_id, new_target, current_target, att) ==
    /\ last = Idle
    /\ last' = LastCodec("setManualTemp",
                         [circuit_id |-> circuit_id, new_target |-> new_target,
                          current_target |-> current_target],
                         LoginAndPost(manualTempParam(circuit_id,
                                                      float(new_target, 100),
                                                      float(current_target, 100)),
                                      att))
    /\ UNCHANGED <<now, overrides, store, hasStore, cache, device, loop, data>>

\* setManualTemp as an override calls it: from setTemperatureOverride, or
\* (reissue) from the reconciliation of a read whose raw target parses
\* (client.py:312) and is not the override's (320), where raw - user_offset
\* raises TypeError on a user offset that did not parse, before anything is
\* sent
SendOverrideTemp(circuit_id, temperature, target, user_offset, reissue, att) ==
    /\ last = Idle
    /\ reissue => (target # None /\ target # temperature)
    /\ last' = LastCodec("overrideTemp",
                         [circuit_id |-> circuit_id, temperature |-> temperature,
                          target |-> target, user_offset |-> user_offset,
                          reissue |-> reissue],
                         IF reissue /\ user_offset = None
                         THEN Wrote(0, 0, <<>>, "TypeError", FALSE)
                         ELSE LoginAndPost(overrideParam(circuit_id, temperature,
                                                         target, user_offset), att))
    /\ UNCHANGED <<now, overrides, store, hasStore, cache, device, loop, data>>

DecodeCircuitSchedules(text) ==
    /\ last = Idle
    /\ last' = LastCodec("getCircuitSchedules", text, decodeCircuitSchedules(text))
    /\ UNCHANGED <<now, overrides, store, hasStore, cache, device, loop, data>>

\* the same string hashed for a login on one day and for a login on another
BmrHash(value, day, other_day) ==
    /\ last = Idle
    /\ last' = LastCodec("bmr_hash",
                         [value |-> value, day |-> day, other_day |-> other_day],
                         [hash |-> bmr_hash(value, day),
                          other |-> bmr_hash(value, other_day)])
    /\ UNCHANGED <<now, overrides, store, hasStore, cache, device, loop, data>>

DecodeWholeRoom(text) ==
    /\ last = Idle
    /\ last' = LastCodec("wholeRoom", text, decodeWholeRoom(text))
    /\ UNCHANGED <<now, overrides, store, hasStore, cache, device, loop, data>>

NextCodec ==
    \/ Return
    \/ \E circuit_id \in {0, 7}, temperature \in OverrideTemps,
          target \in ReportedTargets, user_offset \in ReportedOffsets,
          reissue \in BOOLEAN, att \in WriteAttempts :
          SendOverrideTemp(circuit_id, temperature, target, user_offset, reissue, att)
    \/ \E text \in WholeRoomTexts : DecodeWholeRoom(text)
    \/ \E value \in HashValues, day \in Days, other_day \in Days :
          BmrHash(value, day, other_day)
    \/ \E text \in ScheduleTexts : DecodeCircuitSchedules(text)
    \/ \E circuit_id \in CodecIds, new_target \in NewTargets,
          current_target \in CurrentTargets, att \in WriteAttempts :
          SendManualTemp(circuit_id, new_target, current_target, att)
    \/ \E text \in RoomTexts : DecodeCircuit(text)
    \/ \E schedule_id \in CodecIds, timetable \in Timetables, att \in WriteAttempts :
          SetSchedule(schedule_id, timetable, att)
    \/ \E circuit_id \in CodecIds, day_schedules \in DayLists, att \in WriteAttempts :
          SetCircuitSchedules(circuit_id, day_schedules, att)
    \/ \E shutter_id \in ShutterIds, pos \in Percents, tilt \in Percents,
          att \in WriteAttempts :
          SaveManualChange(shutter_id, pos, tilt, att)

SpecCodec == Init /\ [][NextCodec]_vars

\* ---- the client asked for single readings ----

\* the seconds between two calls, and the time after which no further call
\* is made
NetTickStep == 5
NetMaxTime == 15

\* the operations called in one behaviour
NetMaxCalls == 2

\* a response with status 200 and an empty body, or a body of one NUL
Blank(body) == Attempt(AllOk, Post(200, body, 0))

\* a login that fails on the wire, is then rejected, and then succeeds
LoginThird == <<"error", "rejected", "ok">>

\* what may happen during one run of a read whose data would be v
NetAttempts(v) ==
    {Answered(v), Refused, Blank("empty"), Blank("nul"),
     Attempt(LoginThird, Post(200, "data", v)),
     Attempt(AllRejected, Post(200, "data", v))}

\* two refusals followed by an answer, and a blank body followed by answers
TwiceLate(att) == [i \in 1..BACKOFF_MAX_TRIES |-> IF i < BACKOFF_MAX_TRIES THEN Refused ELSE att]
AfterBlank(att) == [i \in 1..BACKOFF_MAX_TRIES |-> IF i = 1 THEN Blank("empty") ELSE att]

\* the runs of one call of a read whose data is one of V: the same in every
\* run, or failures followed by an answer
NetTries(V) ==
    UNION {{Always(a) : a \in NetAttempts(v)}
           \cup {Late(Answered(v)), TwiceLate(Answered(v)), AfterBlank(Answered(v))} :
             v \in V}

\* the low mode the controller reports: off, at 18 degrees
LowReading == [enabled |-> FALSE, temperature |-> 180]

\* what /listOfRooms may answer: one name, one slot of blanks, two slots of
\* blanks
NameTexts ==
    {<<"F", "0", "1", " ", "B", "y", "t">> \o Blanks(6), Blanks(NAME_WIDTH),
     Blanks(2 * NAME_WIDTH)}

\* the data of each read: the number of circuits, the names, the HDO flag, a
\* schedule, the low mode
NetData(op) ==
    CASE op = "getNumCircuits" -> {Cardinality(Circuits)}
      [] op = "getHDO" -> {0, 1}
      [] op = "getCircuit" -> {Reading}
      [] op = "getLowMode" -> {LowReading}
      [] op = "getCircuitNames" -> NameTexts
      [] OTHER -> {1}

\* the runs enumerated for a read: one that runs once meets one answer
NetInputs(op) ==
    IF op \in Retried
    THEN NetTries(NetData(op))
    ELSE {Always(a) : a \in UNION {NetAttempts(v) : v \in NetData(op)}}

NetTick ==
    /\ last = Idle
    /\ now + NetTickStep <= NetMaxTime
    /\ now' = now + NetTickStep
    /\ UNCHANGED <<overrides, store, hasStore, last, cache, device, loop, data>>

\* a read operation behind its cache is called
CachedRead(t, op, arg) == Begins(t, cachedCalled(cache, now, op, arg, Quiet))

GetNumCircuits(t) == CachedRead(t, "getNumCircuits", None)
GetCircuitNames(t) == CachedRead(t, "getCircuitNames", None)
GetHDO(t) == CachedRead(t, "getHDO", None)
GetLowMode(t) == CachedRead(t, "getLowMode", None)
GetSchedule(t, schedule_id) == CachedRead(t, "getSchedule", schedule_id)

GetUniqueId(t) == Begins(t, getUniqueIdCalled(cache, now, Quiet))

SetLowMode(t, enabled, temperature) ==
    Begins(t, setLowModeCalled(cache, now, enabled, temperature, Quiet))

\* the 15 characters strftime("%Y-%m-%d%H:%M") makes of the instant t: the
\* date and the time to the minute, kept as the seconds since the start of
\* the whole minute t falls in
Strftime(t) == <<"%Y-%m-%d%H:%M">> \o Dec((t \div 60) * 60)

\* int(x) of a float x, held in tenths of a degree: the fraction is cut,
\* toward zero
int(x) == IF x >= 0 THEN x \div 10 ELSE -((-x) \div 10)

\* " " * 15
Spaces == <<"               ">>

\* the form field lowData of setLowMode (client.py:591-605): the temperature
\* as int, zero-padded to three digits, then the start, which is the time
\* of the call, and the end, of which callers give none; blanks when the
\* mode is switched off.
lowData(enabled, temperature, start_datetime, end_datetime) ==
    ZeroPad(int(temperature), 3)
    \o (IF enabled /\ start_datetime # None THEN Strftime(start_datetime) ELSE Spaces)
    \o (IF enabled /\ end_datetime # None THEN Strftime(end_datetime) ELSE Spaces)

\* switch.py:46-48, 56-58: when setLowMode has returned, whatever it
\* returned, the handler of the away-mode switch writes the value it asked
\* for into the low-mode dict of the coordinator's data.  getLowMode returns
\* a dict or raises, so the dict is never None.
lowModeWritten(me, d) ==
    IF Turned(me) THEN [d EXCEPT !.low_mode.enabled = me.arg.enabled] ELSE d

\* that dict being the one the cache of getLowMode holds (shared), the
\* entry of the cache ch changes with it
lowModeCached(me, ch, shared, t) ==
    IF Turned(me) /\ shared /\ Fresh(ch[CacheKey("getLowMode", None)], "getLowMode", t)
    THEN [ch EXCEPT ![CacheKey("getLowMode", None)].value.enabled = me.arg.enabled]
    ELSE ch

\* the login and the POST to /lowSave of the setLowMode in slot t end
\* (client.py:606-612)
PostReturns(t, att) ==
    /\ last = Idle
    /\ loop.run[t].pc = "post"
    /\ \E to \in {[write |-> LoginAndPost(lowData(loop.run[t].arg.enabled,
                                                  loop.run[t].temperature,
                                                  loop.run[t].at, None), att)]
                   @@ [loop.run[t] EXCEPT !.pc = "done"]} :
          /\ cache' = lowModeCached(to, cache, loop.low, now)
          /\ Handed(t, to, loop, lowModeWritten(to, data))
    /\ UNCHANGED <<now, overrides, store, hasStore, device>>

\* The client is asked for single readings, up to NetMaxCalls of them and
\* two at a time: the cached reads, getUniqueId and setLowMode, which go
\* through the caches of getCircuitNames and getLowMode, and getCircuit of a
\* circuit without an override.
NextNet ==
    \/ NetTick
    \/ Return
    \/ \E t \in TaskIds : Budget(NetMaxCalls) /\ GetNumCircuits(t)
    \/ \E t \in TaskIds : Budget(NetMaxCalls) /\ GetCircuitNames(t)
    \/ \E t \in TaskIds : Budget(NetMaxCalls) /\ GetHDO(t)
    \/ \E t \in TaskIds : Budget(NetMaxCalls) /\ GetLowMode(t)
    \/ \E t \in TaskIds, schedule_id \in ScheduleIds :
          Budget(NetMaxCalls) /\ GetSchedule(t, schedule_id)
    \/ \E t \in TaskIds : Budget(NetMaxCalls) /\ GetUniqueId(t)
    \/ \E t \in TaskIds, enabled \in BOOLEAN, temperature \in {None, 205, -5} :
          Budget(NetMaxCalls) /\ SetLowMode(t, enabled, temperature)
    \/ \E t \in TaskIds, c \in Managed :
          Budget(NetMaxCalls) /\ c \notin DOMAIN overrides /\ GetCircuit(t, c, FALSE)
    \/ \E t \in TaskIds :
          /\ loop.run[t].pc = "fetch"
          /\ \E tries \in NetInputs(loop.run[t].fetch) : FetchReturns(t, tries)
    \/ \E t \in TaskIds, tries \in NetInputs("getCircuit") : ReadReturns(t, tries, TRUE)
    \/ \E t \in TaskIds, att \in {Answered(1), Answered(0), Refused} : PostReturns(t, att)

SpecNet == Init /\ [][NextNet]_vars

\* ---- the client asked to change the summer-mode settings ----

\* the operations called in one behaviour
AssignMaxCalls == 2

\* the circuits callers name, the last one past the end of the vector
CircuitLists == {<<0>>, <<2>>, <<0, 2>>, <<1, Len(InitialDevice.summer)>>}

\* the answers to /letoSaveRooms: "true", something else, a status other
\* than 200
SaveAnswers == {Post(200, "data", 1), Post(200, "data", 0), Post(500, "empty", 0)}

\* what the controller dev answers to the cached reads: the number of
\* circuits, the low mode, the summer-mode value and the assignment vector
\* it holds, and 1 for the others
SnapshotData(op, dev) ==
    CASE op = "getNumCircuits" -> Cardinality(Circuits)
      [] op = "getLowMode" -> LowReading
      [] op = "getSummerMode" -> dev.mode
      [] op = "getSummerModeAssignments" -> dev.summer
      [] OTHER -> 1

\* the answers to /letoLoadRooms: the vector the controller holds, or a
\* status other than 200
AssignmentReads(dev) ==
    {Always(Answered(SnapshotData("getSummerModeAssignments", dev))), Always(Refused)}

\* the answers to /loadSummerMode: the value the controller stores, a body
\* int() refuses, or a status other than 200
SummerModeReads(dev) ==
    {Always(Answered(SnapshotData("getSummerMode", dev))),
     Always(Attempt(AllOk, Post(200, "nul", 0))), Always(Refused)}

GetSummerMode(t) == CachedRead(t, "getSummerMode", None)
GetSummerModeAssignments(t) == CachedRead(t, "getSummerModeAssignments", None)

\* Callers read and switch summer mode and change the assignments, up to
\* AssignMaxCalls calls and two at a time.
NextAssign ==
    \/ NetTick
    \/ Return
    \/ \E t \in TaskIds, value \in BOOLEAN :
          Budget(AssignMaxCalls) /\ SetSummerMode(t, value)
    \/ \E t \in TaskIds : Budget(AssignMaxCalls) /\ GetSummerMode(t)
    \/ \E t \in TaskIds : Budget(AssignMaxCalls) /\ GetSummerModeAssignments(t)
    \/ \E t \in TaskIds, circuits \in CircuitLists, value \in BOOLEAN :
          Budget(AssignMaxCalls) /\ SetSummerModeAssignments(t, circuits, value)
    \/ \E t \in TaskIds, logins \in {AllOk, AllRejected} : LoginReturns(t, logins)
    \/ \E t \in TaskIds :
          /\ loop.run[t].pc = "fetch"
          /\ \E tries \in IF loop.run[t].fetch = "getSummerMode"
                         THEN SummerModeReads(device) ELSE AssignmentReads(device) :
                FetchReturns(t, tries)
    \/ \E t \in TaskIds, post \in SaveAnswers : SaveRoomsReturns(t, post, TRUE)
    \/ \E t \in TaskIds, att \in WriteAttempts \cup {Answered(0)} :
          SaveSummerModeReturns(t, att, TRUE)

SpecAssign == Init /\ [][NextAssign]_vars

\* ---- climate entities switched between modes ----

\* the coroutines started in one behaviour, and the time after which the
\* coordinator makes no update
HvacMaxCalls == 3
HvacMaxTime == 60

\* the modes a climate entity is switched to (HEAT stands for HEAT_COOL as
\* well: the handler treats them alike)
HvacModes == {"off", "auto", "heat"}

\* the controller has summer mode off, or on
InitHvac ==
    /\ now = 0
    /\ store = Persisted
    /\ overrides = LoadOverrides(store)
    /\ hasStore = TRUE
    /\ last = Idle
    /\ cache = NoCache
    /\ device \in {InitialDevice, [InitialDevice EXCEPT !.mode = 0, !.asked = TRUE]}
    /\ loop = NoLoop
    /\ data = NoData

HvacPoll == \E t \in TaskIds : Refresh(t, HvacMaxTime)

\* The coordinator updates its data, and the entities of the circuits are
\* switched between modes, two handlers at a time.  The controller answers
\* every read; it may refuse what is posted to it.
NextHvac ==
    \/ Return
    \/ HvacPoll
    \/ \E t \in TaskIds, hvac_mode \in HvacModes, idx \in Circuits, automatic \in BOOLEAN :
          Budget(HvacMaxCalls) /\ SetHvacMode(t, hvac_mode, idx, automatic, TRUE)
    \/ \E t \in TaskIds : LoginReturns(t, AllOk)
    \/ \E t \in TaskIds :
          /\ loop.run[t].pc = "fetch"
          /\ FetchReturns(t, Always(Answered(SnapshotData(loop.run[t].fetch, device))))
    \/ \E t \in TaskIds, post \in SaveAnswers : SaveRoomsReturns(t, post, TRUE)
    \/ \E t \in TaskIds, att \in {Answered(1), Refused} : SaveSummerModeReturns(t, att, TRUE)
    \/ \E t \in TaskIds : ReadReturns(t, Always(Answered(Reading)), TRUE)
    \/ \E t \in TaskIds, outcome \in {"ok", "http_error"} : CommandReturns(t, outcome)
    \/ \E t \in TaskIds : SaveReturns(t)

SpecHvac == InitHvac /\ [][NextHvac]_vars

\* ---- the client polled for whole snapshots ----

\* the operations called in one behaviour
AllMaxCalls == 2

\* the override temperature and duration callers ask for while the client is
\* polled
SnapshotTemps == {210}
SnapshotDurations == {TickStep}

SubOps == {SubFetches[i] : i \in 1..Len(SubFetches)}

\* the runs of a cached read of getAllData: answered, or refused on every run
SnapshotFetches(op, dev) == {Always(Answered(SnapshotData(op, dev))), Always(Refused)}

\* the runs of a circuit read: answered, and for the managed circuit also
\* answered on the second run or refused on every run
SnapshotReads(c) ==
    IF c \in Managed
    THEN {Always(Answered(Reading)), Late(Answered(Reading)), Always(Refused)}
    ELSE {Always(Answered(Reading))}

\* the seconds between two instants at which the client is called
AllTickStep == 450

\* time passes while no update of the coordinator is in progress (an update
\* is given 30 s, __init__.py:75)
AllTick ==
    /\ last = Idle
    /\ NoPoll
    /\ now + AllTickStep <= MaxTime
    /\ now' = now + AllTickStep
    /\ UNCHANGED <<overrides, store, hasStore, last, cache, device, loop, data>>

\* the client is constructed with an override of every circuit
InitAll == Init /\ store = PersistedExpiring

\* The client is polled for snapshots while callers read the managed
\* circuit and set and remove its override: up to AllMaxCalls operations,
\* two of them at a time.  Summer mode may be switched first.
NextAll ==
    \/ AllTick
    \/ Return
    \/ \E t \in TaskIds : Budget(AllMaxCalls) /\ NoPoll /\ GetAllData(t)
    \/ \E t \in TaskIds, c \in Managed : Budget(AllMaxCalls) /\ GetCircuit(t, c, FALSE)
    \/ \E t \in TaskIds, c \in Managed, temperature \in SnapshotTemps,
          duration \in SnapshotDurations :
          Budget(AllMaxCalls) /\ SetTemperatureOverride(t, c, temperature, duration, TRUE)
    \/ \E t \in TaskIds, c \in Managed :
          Budget(AllMaxCalls) /\ RemoveTemperatureOverride(t, c)
    \/ \E t \in TaskIds, value \in BOOLEAN : loop.calls = 0 /\ SetSummerMode(t, value)
    \/ \E t \in TaskIds, att \in WriteAttempts : SaveSummerModeReturns(t, att, TRUE)
    \/ \E t \in TaskIds :
          /\ loop.run[t].pc = "fetch"
          /\ \E tries \in SnapshotFetches(loop.run[t].fetch, device) : FetchReturns(t, tries)
    \/ \E t \in TaskIds :
          /\ loop.run[t].pc = "read"
          /\ \E tries \in SnapshotReads(loop.run[t].c), saveOk \in BOOLEAN :
                ReadReturns(t, tries, saveOk)
    \/ \E t \in TaskIds, outcome \in {"ok", "http_error"} : CommandReturns(t, outcome)
    \/ \E t \in TaskIds : SaveReturns(t)

SpecAll == InitAll /\ [][NextAll]_vars

\* ---- the switch entities ----

\* switch.py declares two switch entities.  The platform is not among
\* PLATFORMS (__init__.py:18-22), so the integration never loads them; their
\* handlers are modelled as they would run were it loaded.

\* the coroutines started in one behaviour, and the time after which the
\* coordinator makes no update
SwitchMaxCalls == 4
SwitchMaxTime == 120

\* the handler of the away-mode switch is called in slot t with the
\* coordinator holding data (switch.py:43-45, 53-55): it awaits
\* setLowMode(enabled), which takes the temperature from getLowMode()
AwayModeTurned(t, enabled) ==
    /\ data # NoData
    /\ Begins(t, [cache |-> cache,
                  me |-> [entity |-> "away"]
                         @@ setLowModeCalled(cache, now, enabled, None, Quiet).me])

\* BmrAwayModeSwitch.async_turn_on, async_turn_off
AwayModeTurnOn(t) == AwayModeTurned(t, TRUE)
AwayModeTurnOff(t) == AwayModeTurned(t, FALSE)

\* the handler of the summer-mode switch is called in slot t
\* (switch.py:78-80, 84-86): it awaits setSummerMode(value)
SummerModeTurned(t, value) ==
    /\ data # NoData
    /\ Sets(t, [entity |-> "summer"] @@ setSummerMode(value, now, cache, device, Quiet))

\* BmrSummerModeSwitch.async_turn_on, async_turn_off
SummerModeTurnOn(t) == SummerModeTurned(t, TRUE)
SummerModeTurnOff(t) == SummerModeTurned(t, FALSE)

SwitchPoll == \E t \in TaskIds : Refresh(t, SwitchMaxTime)

\* The coordinator updates its data, the switches are turned and the low
\* mode is read, two coroutines at a time.  The controller answers the
\* reads of the circuits, which find no override to act on; it may refuse
\* the other reads and what is posted to it.
NextSwitch ==
    \/ Return
    \/ SwitchPoll
    \/ \E t \in TaskIds : Budget(SwitchMaxCalls) /\ AwayModeTurnOn(t)
    \/ \E t \in TaskIds : Budget(SwitchMaxCalls) /\ AwayModeTurnOff(t)
    \/ \E t \in TaskIds : Budget(SwitchMaxCalls) /\ SummerModeTurnOn(t)
    \/ \E t \in TaskIds : Budget(SwitchMaxCalls) /\ SummerModeTurnOff(t)
    \/ \E t \in TaskIds : Budget(SwitchMaxCalls) /\ data # NoData /\ GetLowMode(t)
    \/ \E t \in TaskIds :
          /\ loop.run[t].pc = "fetch"
          /\ \E tries \in SnapshotFetches(loop.run[t].fetch, device) : FetchReturns(t, tries)
    \/ \E t \in TaskIds : ReadReturns(t, Always(Answered(Reading)), TRUE)
    \/ \E t \in TaskIds, att \in {Answered(1), Answered(0), Refused} : PostReturns(t, att)
    \/ \E t \in TaskIds, att \in {Answered(1), Answered(0), Refused} :
          SaveSummerModeReturns(t, att, TRUE)

SpecSwitch == InitHvac /\ [][NextSwitch]_vars

\* ---- the client polled periodically, for as long as it takes ----

\* the clock of this specification stops at LiveMaxTime; callers set
\* overrides up to LiveSetUntil, at most LiveMaxSets of them for a circuit,
\* and the device refuses requests or reports a malformed offset up to
\* LiveFaultsUntil.  After the last fault the clock has room for a re-issue
\* that was due then and for the next one, 360 s later.
LiveMaxTime == 780
LiveSetUntil == 60
LiveFaultsUntil == 360
LiveMaxSets == 1

\* the override temperature callers ask for, and the targets the device
\* reports for the circuit: it never converges on the override.  For the
\* circuit that is only read it reports what the override asks for.
LiveTemp == 210
LiveTargets(c) == IF c \in Managed THEN {200} ELSE {220}

\* the coordinator's periodic update, whatever callers have in flight
LivePoll == \E t \in TaskIds : Refresh(t, LiveMaxTime)

\* no caller's setTemperatureOverride is in flight
NoSet == \A u \in TaskIds : loop.run[u].op # "setTemperatureOverride"

\* a caller sets an override, over the one the circuit has if it has one,
\* and while an update is suspended if one is; callers set one at a time,
\* which leaves the coordinator a slot of the event loop
LiveSet ==
    /\ now <= LiveSetUntil
    /\ NoSet
    /\ \E t \in TaskIds, c \in Managed, duration \in Durations :
          /\ loop.obj[c] < LiveMaxSets
          /\ SetTemperatureOverride(t, c, LiveTemp, duration, TRUE)

\* the device answers a read with fields that parse
LiveReadOk ==
    \E t \in TaskIds :
       /\ loop.run[t].pc = "read"
       /\ \E tg \in LiveTargets(loop.run[t].c) :
             ReadReturns(t, Always(Answered([target |-> tg, user_offset |-> 20])), TRUE)

\* the device accepts a command
LiveCommandOk == \E t \in TaskIds : CommandReturns(t, "ok")

\* the store's save returns
LiveSaved == \E t \in TaskIds : SaveReturns(t)

\* the device answers one of the other reads of an update
LiveFetchOk ==
    \E t \in TaskIds :
       /\ loop.run[t].pc = "fetch"
       /\ FetchReturns(t, Always(Answered(SnapshotData(loop.run[t].fetch, device))))

\* the read of an update that the device may refuse here: the first after
\* the circuits, so that the update ends with its circuits read
LiveRefused == {"getHDO"}

\* the device misbehaves: the offset field of a read of the managed circuit
\* is malformed, a command is refused, or a read of an update is, which
\* ends the update
LiveFault ==
    /\ now <= LiveFaultsUntil
    /\ \/ \E t \in TaskIds :
             /\ loop.run[t].pc = "read"
             /\ loop.run[t].c \in Managed
             /\ \E tg \in LiveTargets(loop.run[t].c) :
                   ReadReturns(t, Always(Answered([target |-> tg, user_offset |-> None])),
                               TRUE)
       \/ \E t \in TaskIds : CommandReturns(t, "http_error")
       \/ \E t \in TaskIds :
             /\ loop.run[t].pc = "fetch"
             /\ loop.run[t].fetch \in LiveRefused
             /\ FetchReturns(t, Always(Refused))

NextLive ==
    \/ Return
    \/ LiveSet
    \/ LivePoll
    \/ LiveReadOk
    \/ LiveCommandOk
    \/ LiveSaved
    \/ LiveFetchOk
    \/ LiveFault

\* a read, a command or another read of an update is waiting for the device
\* while the caller has taken every result: the states in which LiveReadOk,
\* LiveCommandOk or LiveFetchOk is enabled
ReadPending == last = Idle /\ \E t \in TaskIds : loop.run[t].pc = "read"
CommandPending == last = Idle /\ \E t \in TaskIds : loop.run[t].pc = "cmd"
FetchPending == last = Idle /\ \E t \in TaskIds : loop.run[t].pc = "fetch"

\* where each coroutine stands: the await it is suspended in, the length of
\* its log and the number of calls an update has made.  A step of
\* LiveReadOk, LiveCommandOk or LiveFetchOk changes it.
Awaits ==
    [t \in TaskIds |->
        <<loop.run[t].pc, Len(loop.run[t].log),
          IF loop.run[t].op = "getAllData" THEN Len(loop.run[t].calls) ELSE 0>>]

\* the enabling conditions as written are those of the three actions: an
\* invariant of the next-state relation
EnabledAsWritten ==
    /\ ReadPending <=> ENABLED <<LiveReadOk>>_Awaits
    /\ CommandPending <=> ENABLED <<LiveCommandOk>>_Awaits
    /\ FetchPending <=> ENABLED <<LiveFetchOk>>_Awaits

\* The caller takes every result, the coordinator keeps updating, and every
\* await ends.  The last three conjuncts are weak fairness of LiveReadOk,
\* LiveCommandOk and LiveFetchOk, with their enabling conditions written out.
SpecLive ==
    /\ Init
    /\ [][NextLive]_vars
    /\ WF_vars(Return)
    /\ WF_vars(LivePoll)
    /\ WF_vars(LiveSaved)
    /\ ([]<>~ReadPending \/ []<><<LiveReadOk>>_Awaits)
    /\ ([]<>~CommandPending \/ []<><<LiveCommandOk>>_Awaits)
    /\ ([]<>~FetchPending \/ []<><<LiveFetchOk>>_Awaits)

\* The same with callers that set overrides only between two updates, so
\* that no setTemperatureOverride starts while a read of an update is
\* suspended in a command.
NextLiveBetween ==
    \/ Return
    \/ NoPoll /\ LiveSet
    \/ LivePoll
    \/ LiveReadOk
    \/ LiveCommandOk
    \/ LiveSaved
    \/ LiveFetchOk
    \/ LiveFault

SpecLiveBetween ==
    /\ Init
    /\ [][NextLiveBetween]_vars
    /\ WF_vars(Return)
    /\ WF_vars(LivePoll)
    /\ WF_vars(LiveSaved)
    /\ ([]<>~ReadPending \/ []<><<LiveReadOk>>_Awaits)
    /\ ([]<>~CommandPending \/ []<><<LiveCommandOk>>_Awaits)
    /\ ([]<>~FetchPending \/ []<><<LiveFetchOk>>_Awaits)

\* ---- vocabulary of the properties ----

\* positions in the last operation's log of the commands posted to
\* /saveManualTemp, and of the attempts at one (posted, or stopped by a
\* failed login)
CmdAt == {i \in 1..Len(last.log) : last.log[i].e = "cmd"}
AttemptAt == {i \in 1..Len(last.log) : last.log[i].e \in {"cmd", "auth_error"}}
\* ... and in the log of the operation r
CmdAtOf(r) == {i \in 1..Len(r.log) : r.log[i].e = "cmd"}
AttemptAtOf(r) == {i \in 1..Len(r.log) : r.log[i].e \in {"cmd", "auth_error"}}
SaveAt == {i \in 1..Len(last.log) : last.log[i].e \in {"save", "warning"}}

\* a zero-offset command: setManualTemp(circuit, 0, 0)
IsZeroCmd(ev, c) == ev.e = "cmd" /\ ev.c = c /\ ev.t = 0 /\ ev.off = 0
\* an offset-set command for override temperature temp
IsOffsetSetCmd(ev, c, temp) == ev.e = "cmd" /\ ev.c = c /\ ev.t = temp

\* the last operation was a getCircuit call that returned a record
ReadReturned == last.op = "getCircuit" /\ ~last.raised
\* ... made without skip_override_check
CheckedRead == ReadReturned /\ ~last.skip

\* the circuit had an override entry when the last operation looked at the
\* map (at the instant last.at: when it was called, and for getCircuit when
\* its read was answered)
HadOverride == last.op # "none" /\ last.pre # NoOverride
\* ... whose stop_at had passed
WasExpired == HadOverride /\ last.pre.stop_at # None /\ last.pre.stop_at <= last.at
\* ... which was still in force
WasActive == HadOverride /\ (last.pre.stop_at = None \/ last.pre.stop_at > last.at)

\* the entry the circuit has now
Entry == EntryOf(overrides, last.c)

\* the last operation posted a command that the controller answered with
\* status 200
CommandAccepted == \E i \in CmdAt : last.log[i].ok

\* ---- C1 ----

\* C1 as stated: on a read (without skip_override_check) of a circuit whose
\* override has stop_at <= now and disabled_at unset, exactly one zero-offset
\* command is sent for the circuit and disabled_at is set.
C1_AsStated ==
    (CheckedRead /\ WasExpired /\ last.pre.disabled_at = None) =>
        /\ Cardinality(CmdAt) = 1
        /\ \A i \in CmdAt : IsZeroCmd(last.log[i], last.c)
        /\ Entry.disabled_at # None

\* C1, amended: such a read, when the device target parses, makes exactly one
\* attempt at a zero-offset command for the circuit and sends nothing else.
\* When the command was posted and answered with status 200, the entry the
\* map holds for the circuit as the command returns gets disabled_at = now;
\* otherwise the read writes nothing.  When the device target does not parse,
\* nothing is sent and nothing written.  A read that no other call overlaps
\* leaves every other field of the entry as it found it.
C1_FirstExpiryRead ==
    (CheckedRead /\ WasExpired /\ last.pre.disabled_at = None) =>
        /\ IF last.dev.target = None
           THEN AttemptAt = {}
           ELSE /\ Cardinality(AttemptAt) = 1
                /\ \A i \in CmdAt : IsZeroCmd(last.log[i], last.c)
        /\ (CommandAccepted /\ last.c \in DOMAIN overrides) => Entry.disabled_at = now
        /\ ~CommandAccepted => last.mapSame
        /\ last.alone =>
              Entry = [last.pre EXCEPT !.disabled_at = IF CommandAccepted THEN now ELSE None]

\* reached: an expired, not yet disabled override was read, time passed
\* while the zero-offset command was under way, and the entry is marked
\* disabled as of the command's return
C1_Witness ==
    /\ CheckedRead /\ WasExpired /\ last.pre.disabled_at = None
    /\ \E i \in CmdAt : IsZeroCmd(last.log[i], last.c) /\ last.log[i].ok
    /\ now > last.at
    /\ Entry = [last.pre EXCEPT !.disabled_at = now]

\* ---- C2 ----

\* C2: a read of a circuit whose override is expired and was disabled not more
\* than TEMPERATURE_OVERRIDE_CHECK_DELAY seconds ago sends no command and
\* leaves the entry in the map (unchanged).
C2_GraceReadIsQuiet ==
    (/\ last.op = "getCircuit"
     /\ WasExpired
     /\ last.pre.disabled_at # None
     /\ last.at - last.pre.disabled_at <= TEMPERATURE_OVERRIDE_CHECK_DELAY) =>
        /\ AttemptAt = {}
        /\ last.mapSame
        /\ last.c \in DOMAIN overrides
        /\ Entry = last.pre

\* reached: a checked read that decoded a target, made some time after the
\* override was disabled and still inside the grace window
C2_Witness ==
    /\ CheckedRead /\ WasExpired
    /\ last.dev.target # None
    /\ last.pre.disabled_at # None
    /\ last.at > last.pre.disabled_at
    /\ last.at - last.pre.disabled_at <= TEMPERATURE_OVERRIDE_CHECK_DELAY
    /\ AttemptAt = {}
    /\ Entry = last.pre

\* ---- C3 ----

\* the last operation deleted the circuit's entry from the map
Removed == \E i \in 1..Len(last.log) : last.log[i] = DelEv(last.c)

\* C3 as stated: an entry leaves the map only in a getCircuit read that finds
\* stop_at <= now and disabled_at more than 300 s in the past, and that read
\* hands the map to the store right after the deletion; and no override is
\* deleted before a zero-offset command was sent for it.
C3_AsStated ==
    Removed =>
        /\ last.op \in {"getCircuit", "removeTemperatureOverride"}
        /\ last.dev.target # None
        /\ \E i \in 1..(Len(last.log) - 1) :
              /\ last.log[i] = DelEv(last.c)
              /\ i + 1 = Len(last.log)
              /\ last.log[i + 1].e \in {"save", "warning"}
        /\ last.op = "getCircuit" =>
              /\ ~last.skip /\ WasExpired
              /\ last.pre.disabled_at # None
              /\ last.pre.disabled_at < last.at - TEMPERATURE_OVERRIDE_CHECK_DELAY
        /\ last.obj \in loop.zeroed[last.c]

\* ---- C4 ----

\* C4: a read made less than 300 s after an override without duration was
\* created attempts no command and does not touch the entry; the call that
\* created the override posts at most one command.  So at most one offset-set
\* command reaches the device in that window.
C4_NoReissueInWindow ==
    /\ (/\ last.op = "getCircuit"
        /\ HadOverride
        /\ last.pre.stop_at = None
        /\ last.at - last.pre.created_at < TEMPERATURE_OVERRIDE_CHECK_DELAY) =>
           AttemptAt = {} /\ last.mapSame /\ Entry = last.pre
    /\ last.op = "setTemperatureOverride" => Cardinality(CmdAt) <= 1

\* reached: inside the window, a checked read of an override set by a caller
\* finds the device reporting another target, and sends nothing
C4_Witness ==
    /\ CheckedRead /\ HadOverride
    /\ last.c \in Managed
    /\ last.pre.stop_at = None
    /\ last.at > last.pre.created_at
    /\ last.at - last.pre.created_at < TEMPERATURE_OVERRIDE_CHECK_DELAY
    /\ last.dev.target # None /\ last.dev.target # last.pre.temperature
    /\ last.dev.user_offset # None
    /\ AttemptAt = {}

\* ---- C5 ----

\* the last read posted the offset-set command for the override it found
Reissued ==
    \E i \in CmdAt : IsOffsetSetCmd(last.log[i], last.c, last.pre.temperature)

\* C5 as stated: for an unexpired override, a read re-issues the offset-set
\* command iff the device-reported target differs from the override
\* temperature and at least 300 s have elapsed since last_set; when it does,
\* last_set becomes now and the map is not persisted.  (Stated here for the
\* reads whose target and user-offset fields both parse.)
C5_AsStated ==
    (CheckedRead /\ WasActive /\ last.dev.target # None /\ last.dev.user_offset # None) =>
        /\ Reissued <=>
             /\ last.dev.target # last.pre.temperature
             /\ last.at - last.pre.last_set >= TEMPERATURE_OVERRIDE_CHECK_DELAY
        /\ Reissued => SaveAt = {} /\ last.storeSame

\* the device target parses, differs from the override temperature, and
\* last_set is more than 300 s old
ReissueDue ==
    /\ last.dev.target # None
    /\ last.dev.target # last.pre.temperature
    /\ last.at - last.pre.last_set > TEMPERATURE_OVERRIDE_CHECK_DELAY

\* C5, amended: for an unexpired override, a read stamps last_set with the
\* time of its reconciliation iff the device target parses, differs from the
\* override temperature and MORE than 300 s have elapsed since last_set, and
\* writes nothing else; it then makes one attempt at the offset-set command
\* for the override temperature, provided the device's user offset parses
\* too (without it no command can be built).  Nothing else is sent, and the
\* map is not persisted.  A read that no other call overlaps leaves the
\* entry with last_set stamped and otherwise as it found it.
C5_ReissueRule ==
    (CheckedRead /\ WasActive) =>
        /\ ReissueDue <=> ~last.mapSame
        /\ AttemptAt # {} <=> (ReissueDue /\ last.dev.user_offset # None)
        /\ Cardinality(AttemptAt) <= 1
        /\ \A i \in CmdAt : IsOffsetSetCmd(last.log[i], last.c, last.pre.temperature)
        /\ SaveAt = {}
        /\ last.storeSame
        /\ last.alone =>
              Entry = IF ReissueDue THEN [last.pre EXCEPT !.last_set = last.at]
                      ELSE last.pre

\* reached: a read re-issued the command for an unexpired override and
\* stamped last_set
C5_Witness ==
    /\ CheckedRead /\ WasActive
    /\ ReissueDue
    /\ Reissued
    /\ Entry = [last.pre EXCEPT !.last_set = last.at]
    /\ last.pre.last_set # last.at

\* ---- C6 ----

\* C6 as stated: a checked read of a circuit with an unexpired override
\* returns the override's temperature as target_temperature whatever the
\* device reported, and the device-reported value as target_temperature_raw.
C6_AsStated ==
    (CheckedRead /\ WasActive) =>
        /\ last.ret.target_temperature = last.pre.temperature
        /\ last.ret.target_temperature_raw = last.dev.target

\* C6, amended: it does so whenever the device's target field parses; when it
\* does not, target_temperature and target_temperature_raw are both absent.
C6_ReportedTarget ==
    (CheckedRead /\ WasActive) =>
        /\ last.ret.target_temperature_raw = last.dev.target
        /\ last.ret.target_temperature =
             IF last.dev.target # None THEN last.pre.temperature ELSE None

\* reached: the device reports another target than the override's, and the
\* record shows the override's
C6_Witness ==
    /\ CheckedRead /\ WasActive
    /\ last.dev.target # None
    /\ last.dev.target # last.pre.temperature
    /\ last.ret.target_temperature = last.pre.temperature
    /\ last.ret.target_temperature_raw = last.dev.target

\* ---- C7 ----

\* the override a setTemperatureOverride call puts in the map
NewOverride ==
    TemperatureOverride(last.temperature, last.at, StopAt(last.at, last.duration))

\* C7: setTemperatureOverride first puts the new override in the map (created
\* as the call is made, stop_at = that instant + duration or none), then calls
\* the store's save with the map, then (after reading the circuit for its
\* scheduled temperature) posts the offset-set command for the override
\* temperature.  A call that returns has done all three, in this order;
\* nothing is posted when the save fails.  When no other call overlaps it,
\* the map holds the new override and the store its serialization as the
\* call ends.
C7_StorePersistSend ==
    last.op = "setTemperatureOverride" =>
        /\ Len(last.log) >= 2
        /\ last.log[1] = PutEv(last.c)
        /\ last.log[2].e = "save"
        /\ ~last.log[2].ok => Len(last.log) = 2 /\ last.raised
        /\ \A i \in AttemptAt : i = 4 /\ Len(last.log) = 4 /\ last.log[3] = ReadEv(last.c, TRUE)
        /\ \A i \in CmdAt : IsOffsetSetCmd(last.log[i], last.c, last.temperature)
        /\ ~last.raised => CmdAt = {4} /\ last.log[4].ok
        /\ last.alone =>
              /\ Entry = NewOverride
              /\ last.log[2].ok => store = serializeAll(overrides)

\* reached: an override with a duration was stored, saved and, some time
\* later, sent as a non-zero offset
C7_Witness ==
    /\ last.op = "setTemperatureOverride" /\ ~last.raised
    /\ last.duration # None
    /\ now > last.at
    /\ Entry = NewOverride
    /\ store = serializeAll(overrides)
    /\ \E i \in CmdAt : last.log[i].off # 0

\* ---- C8 ----

\* a removal has ended this override: stop_at lies before created_at, where
\* no duration puts it, and the zero-offset command of the removal was
\* accepted
RemovedAndOff(o) ==
    /\ o.stop_at # None /\ o.stop_at < o.created_at
    /\ o.disabled_at # None

\* C8 as stated, for a device that answers every read with fields that parse
\* and accepts every command: removeTemperatureOverride on a circuit with an
\* entry sets stop_at one second before now, and the reconciliation that
\* follows sends a zero-offset command and sets disabled_at (unless already
\* disabled); no offset-set command carrying the override temperature is
\* sent after the removal: none by the removal itself, which is looked at
\* when no other call overlaps it, and none by any call for an override
\* that a removal has ended and switched off.
C8_AsStated ==
    /\ (/\ last.op = "removeTemperatureOverride" /\ HadOverride /\ last.alone
        /\ last.dev.target # None /\ \A i \in AttemptAt : last.log[i].ok) =>
          /\ \A i \in CmdAt : IsZeroCmd(last.log[i], last.c)
          /\ last.pre.disabled_at = None => CmdAt # {}
          /\ ~Removed =>
                /\ Entry.stop_at = last.at - 1
                /\ Entry.disabled_at # None
    /\ (/\ last.op = "setTemperatureOverride"
        /\ \E i \in CmdAt : /\ IsOffsetSetCmd(last.log[i], last.c, last.temperature)
                            /\ last.log[i].off # 0) =>
          ~(Entry.temperature = last.temperature /\ RemovedAndOff(Entry))

\* ---- C9 ----

\* C9: removeTemperatureOverride on a circuit without an entry makes one
\* attempt at a zero-offset command for that circuit and does nothing else:
\* no read, no save, the map and the store unchanged.  When it returns, exactly
\* one zero-offset command was posted.
C9_RemoveWithoutOverride ==
    (last.op = "removeTemperatureOverride" /\ last.pre = NoOverride) =>
        /\ last.mapSame /\ last.storeSame
        /\ Len(last.log) = 1
        /\ AttemptAt = {1}
        /\ \A i \in CmdAt : IsZeroCmd(last.log[i], last.c)
        /\ ~last.raised => last.log = <<CmdEv(last.c, 0, 0, TRUE)>>

\* reached: the call returned on a circuit without an entry while the map
\* holds another circuit's override
C9_Witness ==
    /\ last.op = "removeTemperatureOverride" /\ last.pre = NoOverride
    /\ ~last.raised
    /\ last.log = <<CmdEv(last.c, 0, 0, TRUE)>>
    /\ DOMAIN overrides # {}
    /\ store = serializeAll(overrides)

\* ---- C10 ----

\* the disable marker a persisted record carries, if any
StoredDisabledAt(rec) ==
    IF "disabled_at" \in DOMAIN rec THEN rec.disabled_at ELSE None

\* the store holds the current map, disable marker included
StoreHoldsMap ==
    /\ DOMAIN store = DOMAIN overrides
    /\ \A k \in DOMAIN overrides :
          /\ store[k].temperature = overrides[k].temperature
          /\ store[k].created_at = overrides[k].created_at
          /\ store[k].stop_at = overrides[k].stop_at
          /\ StoredDisabledAt(store[k]) = overrides[k].disabled_at

\* the last operation completed without a failed save and created, disabled
\* or deleted the circuit's override
Created == last.op = "setTemperatureOverride" /\ ~last.raised
Disabled ==
    /\ last.op \in {"getCircuit", "removeTemperatureOverride"} /\ ~last.raised
    /\ HadOverride /\ last.pre.disabled_at = None
    /\ Entry.disabled_at # None
Deleted == Removed /\ ~last.raised /\ \A i \in SaveAt : last.log[i].ok

\* C10 as stated: after each completed operation that creates, disables or
\* deletes an override the store holds the serialization of the current map,
\* disable marker included; a change of last_set alone triggers no save.
C10_AsStated ==
    /\ (Created \/ Disabled \/ Deleted) => StoreHoldsMap
    /\ (HadOverride /\ Entry = [last.pre EXCEPT !.last_set = Entry.last_set]
          /\ Entry.last_set # last.pre.last_set) => SaveAt = {}

\* ---- C11 ----

\* Bmr.__init__ with or without an overrides store
InitAnyStore ==
    /\ now = 0
    /\ store \in {Persisted, PersistedExpiring}
    /\ overrides = LoadOverrides(store)
    /\ hasStore \in BOOLEAN
    /\ last = Idle
    /\ cache = NoCache
    /\ device = InitialDevice
    /\ loop = NoLoop
    /\ data = NoData

SpecAnyStore == InitAnyStore /\ [][Next]_vars

\* every login, read and command of the last operation went through
TransportOk ==
    \A i \in 1..Len(last.log) :
        last.log[i].e \in {"read", "cmd", "auth_error"} => last.log[i].ok

\* the last operation meant to persist the map and could not: there is no
\* store, or the store's save raised
NotPersisted ==
    \E i \in SaveAt : last.log[i].e = "warning" \/ ~last.log[i].ok

\* C11 as stated: with no store configured, or when the save fails,
\* setTemperatureOverride still keeps the override in the map and still sends
\* the offset-set command (the device answering), and a read after the grace
\* period still removes the entry from the map.
C11_AsStated ==
    /\ (last.op = "setTemperatureOverride" /\ NotPersisted /\ TransportOk) =>
          /\ last.c \in DOMAIN overrides
          /\ Entry.temperature = last.temperature
          /\ \E i \in CmdAt : IsOffsetSetCmd(last.log[i], last.c, last.temperature)
    /\ (/\ CheckedRead /\ WasExpired
        /\ last.dev.target # None
        /\ last.pre.disabled_at # None
        /\ last.pre.disabled_at < last.at - TEMPERATURE_OVERRIDE_CHECK_DELAY) =>
          Removed

\* ---- C19 ----

\* the temperature the device's schedule asks for: the device reports
\* raw target = scheduled + its own offset
Scheduled == last.dev.target - last.dev.user_offset

\* both fields of the response parsed
BothParsed == last.dev.target # None /\ last.dev.user_offset # None

\* the record's target is the scheduled temperature plus the record's offset
TargetIsScheduledPlusOffset ==
    last.ret.target_temperature = Scheduled + last.ret.user_offset

\* C19 as stated: every record returned while no override is active for the
\* circuit (none in the map, or an expired one) has target_temperature =
\* scheduled temperature + user_offset.
C19_AsStated ==
    (ReadReturned /\ ~WasActive /\ BothParsed) => TargetIsScheduledPlusOffset

\* C19, amended: the equation holds for a record of a circuit that has no
\* entry in the override map, and for one read with skip_override_check,
\* when target and user offset both parse: the record then carries the
\* device's target and the device's offset.  While an expired override is
\* still in the map, a checked read reports user_offset 0 with the raw
\* target, so there the equation holds only if the device reports a zero
\* offset itself.
C19_TargetEquation ==
    /\ (ReadReturned /\ BothParsed /\ (~HadOverride \/ last.skip)) =>
          /\ TargetIsScheduledPlusOffset
          /\ last.ret.target_temperature = last.dev.target
          /\ last.ret.user_offset = last.dev.user_offset
    /\ (CheckedRead /\ WasExpired /\ BothParsed) =>
          /\ last.ret.target_temperature = Scheduled + last.dev.user_offset
          /\ TargetIsScheduledPlusOffset <=> last.dev.user_offset = 0

\* reached: a read with skip_override_check of a circuit whose expired
\* override is still in the map, the device reporting a nonzero offset: the
\* record carries the device's offset and the equation holds
C19_Witness ==
    /\ ReadReturned /\ BothParsed
    /\ last.dev.user_offset # 0
    /\ last.skip /\ WasExpired
    /\ last.ret.user_offset = last.dev.user_offset
    /\ TargetIsScheduledPlusOffset

\* ---- C20 ----

\* C20 as stated: every checked read that finds the circuit's override
\* expired returns user_offset 0 and the raw target as target_temperature.
C20_AsStated ==
    (CheckedRead /\ WasExpired) =>
        /\ last.ret.user_offset = 0
        /\ last.ret.target_temperature = last.dev.target

\* C20, amended: it does so on every such read whose response carries a
\* target that parses: the first, the ones during the grace period and the
\* one that deletes the entry, whether or not the zero-offset command or the
\* save went through, and whatever offset the device reports.  When the
\* target does not parse, the record carries no target and the device's
\* offset.
C20_ExpiredReadReport ==
    (CheckedRead /\ WasExpired) =>
        /\ last.ret.target_temperature = last.dev.target
        /\ last.ret.target_temperature_raw = last.dev.target
        /\ last.ret.user_offset =
             IF last.dev.target # None THEN 0 ELSE last.dev.user_offset

\* reached: a read after the one that disabled the override, the device
\* still reporting an offset, returned offset 0 and the raw target
C20_Witness ==
    /\ CheckedRead /\ WasExpired
    /\ last.pre.disabled_at # None
    /\ last.dev.target # None
    /\ last.dev.user_offset # None /\ last.dev.user_offset # 0
    /\ last.ret.user_offset = 0
    /\ last.ret.target_temperature = last.dev.target



\* ---- C12 ----

\* the last operation was a getAllData call
Polled == last.op = "getAllData"

\* the events of the last operation's log that belong to the read of circuit c
ReadsOf(c) == {i \in 1..Len(last.log) : last.log[i].e = "read" /\ last.log[i].c = c}
AttemptsOf(c) == {i \in AttemptAt : last.log[i].c = c}

\* the read of circuit c got a response and decoded it
Fetched(c) == \E i \in ReadsOf(c) : last.log[i].ok

\* the calls getAllData made of getCircuit(c), and its calls that raised
CallsOf(c) ==
    {i \in 1..Len(last.calls) : last.calls[i].op = "getCircuit" /\ last.calls[i].arg = c}
RaisedCalls == {i \in 1..Len(last.calls) : last.calls[i].raised}

\* C12: in getAllData, the read of a circuit whose fetch was answered returns
\* the circuit's record whatever happens in its reconciliation (a command or
\* a save that fails): the next circuit is read, after the last circuit the
\* other fields are fetched, and the snapshot holds one record per circuit.
\* getAllData raises only when a fetch fails: the call that raised is its
\* last one, and if it is a circuit read, no run of it decoded a response.
C12_ReconcileErrorsContained ==
    Polled =>
        /\ \A c \in Circuits :
              Fetched(c) =>
                 /\ \E i \in CallsOf(c) : ~last.calls[i].raised
                 /\ c + 1 \in Circuits => ReadsOf(c + 1) # {}
                 /\ c + 1 \notin Circuits =>
                       \E i \in 1..Len(last.calls) : last.calls[i].op = SubFetches[1]
        /\ last.raised <=> RaisedCalls # {}
        /\ RaisedCalls \subseteq {Len(last.calls)}
        /\ \A i \in RaisedCalls :
              last.calls[i].op = "getCircuit" => ~Fetched(last.calls[i].arg)
        /\ ~last.raised =>
              /\ Len(last.ret.circuits) = Cardinality(Circuits)
              /\ \A c \in Circuits :
                    last.ret.circuits[c + 1].target_temperature_raw = Reading.target

\* reached: a snapshot was returned although, in the same poll, the save
\* after the deletion of one circuit's override raised and the command
\* re-issued for the other circuit's override was refused
C12_Witness ==
    /\ Polled /\ ~last.raised
    /\ \E c \in Circuits :
          /\ \E i \in 1..(Len(last.log) - 1) :
                last.log[i] = DelEv(c) /\ last.log[i + 1] = SaveEv(FALSE)
          /\ c \notin DOMAIN overrides
    /\ \E c \in Circuits : \E i \in CmdAt : last.log[i].c = c /\ ~last.log[i].ok
    /\ Len(last.ret.circuits) = Cardinality(Circuits)

\* ---- C13 ----

\* C13 as stated: when one of the HDO, ventilation, summer-mode or low-mode
\* fetches of getAllData fails after its retries, getAllData does not raise
\* and returns a snapshot with the circuits populated.
C13_AsStated ==
    (Polled /\ \E i \in RaisedCalls : last.calls[i].op \in SubOps) =>
        /\ ~last.raised
        /\ Len(last.ret.circuits) = Cardinality(Circuits)

\* ---- C14 ----

\* C14: no operation attempts more than one command per circuit: getAllData
\* at most one per circuit read (also when the read's fetch was re-run by the
\* decorator and when the command fails), getCircuit,
\* setTemperatureOverride and removeTemperatureOverride at most one, and
\* setSummerMode posts its request at most once.  No read is made of a
\* circuit after a command was attempted for it.
C14_WritesNotRepeated ==
    /\ last.op \in {"getAllData", "getCircuit", "setTemperatureOverride",
                    "removeTemperatureOverride"} =>
          \A c \in Circuits :
             /\ Cardinality(AttemptsOf(c)) <= 1
             /\ \A i \in AttemptsOf(c) : \A j \in ReadsOf(c) : j < i
    /\ last.op = "setSummerMode" => last.net.posts <= 1

\* reached: in a poll, the fetch of a circuit failed once and was re-run; the
\* run that succeeded sent a command, which the device refused; it was sent
\* once
C14_Witness ==
    /\ Polled
    /\ \E c \in Circuits :
          /\ \E i \in CallsOf(c) : last.calls[i].runs >= 2
          /\ \E i \in CmdAt : last.log[i].c = c /\ ~last.log[i].ok
          /\ Cardinality(AttemptsOf(c)) = 1


\* ---- C15 ----

\* the last operation was a single read, and one that was not served from a
\* cache
WasRead ==
    last.op \in {"getNumCircuits", "getCircuitNames", "getHDO", "getLowMode",
                 "getSchedule", "getCircuit"}
Ran == WasRead /\ ~last.net.hit

\* C15 as stated: a read whose remote call kept failing made five runs of the
\* call before the failure reached the caller.
C15_AsStated ==
    (Ran /\ last.net.raised # "none") => last.net.tries = 5

\* C15, amended: every read ends after a bounded number of runs of its
\* remote call (login, POST, decode).  A read decorated with the retry
\* (getNumCircuits, getHDO, getLowMode, getCircuit) makes at most
\* BACKOFF_MAX_TRIES runs, an undecorated one (getCircuitNames, getSchedule)
\* exactly one.  Every run before the last one raised, so a success is
\* returned at once; the failure of the last permitted run reaches the
\* caller.  Within a run the login is posted at most BACKOFF_MAX_TRIES times
\* and the request at most once.
C15_RetryRule ==
    Ran =>
        /\ last.net.tries >= 1
        /\ last.op \in Retried => last.net.tries <= BACKOFF_MAX_TRIES
        /\ last.op \notin Retried => last.net.tries = 1
        /\ last.net.raised = "none" => last.net.failed = last.net.tries - 1
        /\ last.net.raised # "none" =>
              /\ last.net.failed = last.net.tries
              /\ last.op \in Retried => last.net.tries = BACKOFF_MAX_TRIES
        /\ last.net.maxLogins <= BACKOFF_MAX_TRIES
        /\ last.net.posts <= last.net.tries
        /\ last.net.logins >= last.net.tries

\* reached: a decorated read whose first two runs failed returned the value
\* of its third run
C15_Witness ==
    /\ Ran /\ last.op = "getCircuit"
    /\ last.net.tries = BACKOFF_MAX_TRIES
    /\ last.net.failed = BACKOFF_MAX_TRIES - 1
    /\ last.net.raised = "none"

\* ---- C16 ----

\* the last operation was a read behind a cache
WasCached == WasRead /\ last.op # "getCircuit"

\* the lookup of the call found an entry, stored so long before the lookup
HadEntry == WasCached /\ last.pre.has
Age == last.at - last.pre.at

\* the call sent nothing
Silent == last.net.logins = 0 /\ last.net.posts = 0

\* C16 as stated: for every read, a call less than 10 s after a successful
\* one is served from the cache without a request, and a call more than 10 s
\* after the value was fetched sends a new request.
C16_AsStated ==
    HadEntry =>
        /\ Age < 10 => (last.net.hit /\ Silent)
        /\ Age > 10 => (~last.net.hit /\ ~Silent)

\* C16, amended: getSchedule, getHDO and getLowMode serve a value for
\* CACHE_DEFAULT_TTL seconds from the moment the fetch returned and stored
\* it: a call with the same arguments made less than that after the store
\* returns the stored value, sends nothing and leaves the caches alone; a
\* call made that long after the store or later sends a request.
\* getNumCircuits and getCircuitNames, once stored, are served from their
\* cache at any age.  getCircuit has no cache: every call sends a request.
\* A call whose lookup finds no entry sends a request, also while another
\* call of the same read is still waiting for its answer.  A call that
\* fetched a value stores it with the time the fetch returned; a call that
\* raised stores nothing.
C16_CacheRule ==
    WasRead =>
        /\ (HadEntry /\ last.op \in CachedWithTTL /\ Age < CACHE_DEFAULT_TTL) =>
              /\ last.net.hit /\ Silent
              /\ last.net.value = last.pre.value
              /\ last.cacheSame
              /\ now = last.at
        /\ (HadEntry /\ last.op \in CachedWithTTL /\ Age >= CACHE_DEFAULT_TTL) =>
              /\ ~last.net.hit /\ ~Silent
        /\ (HadEntry /\ last.op \in CachedForever) =>
              /\ last.net.hit /\ Silent
              /\ last.net.value = last.pre.value
              /\ last.cacheSame
        /\ last.op = "getCircuit" => (~last.net.hit /\ ~Silent)
        /\ (WasCached /\ ~HadEntry) => (~last.net.hit /\ ~Silent)
        /\ (Ran /\ WasCached /\ last.net.raised = "none") =>
              cache[CacheKey(last.op, last.arg)] =
                 [has |-> TRUE, value |-> last.net.value, at |-> now]
        /\ (Ran /\ WasCached /\ last.net.raised # "none") => last.cacheSame

\* reached: getHDO, answered before, was called again when its value was
\* exactly CACHE_DEFAULT_TTL seconds old, sent a request and stored the new
\* value, which differs from the old one
C16_Witness ==
    /\ HadEntry /\ last.op = "getHDO"
    /\ Age = CACHE_DEFAULT_TTL
    /\ ~last.net.hit /\ last.net.raised = "none"
    /\ last.net.value # last.pre.value
    /\ cache[CacheKey("getHDO", None)].at = now

\* ---- C17 ----

\* C17 as stated: a call that ends with the authentication error posted the
\* login once in each run of its remote call.
C17_AsStated ==
    (Ran /\ last.net.raised = "AuthException") =>
        last.net.logins = last.net.tries

\* ---- C18 ----

\* C18 as stated: no read returns a value decoded from an empty or
\* single-NUL body.
C18_AsStated ==
    Ran => ~(last.net.raised = "none" /\ last.net.blank)


\* ---- C21 ----

\* the override of circuit c has a stop time
HasDuration(c) == c \in DOMAIN overrides /\ overrides[c].stop_at # None

\* the override object k of circuit c is the one in the map
Holds(c, k) == c \in DOMAIN overrides /\ loop.obj[c] = k

\* C21 as stated: under periodic reads of the circuit that succeed from some
\* time on, every override created with a duration is released, unless a
\* caller replaces it first: a zero-offset command is posted for it and its
\* entry is removed from the map.  (Reads reconcile only the entry the map
\* holds: for an override that has left the map without its command, no
\* later read posts one.)
C21_AsStated ==
    \A c \in Managed, k \in 0..LiveMaxSets :
        (HasDuration(c) /\ Holds(c, k))
           ~> \/ loop.obj[c] # k
              \/ (c \notin DOMAIN overrides /\ k \in loop.zeroed[c])

\* ---- C22 ----

\* the getCircuit calls of the last operation, an update of the coordinator:
\* one for each circuit it got to
PollReads ==
    IF last.op = "getAllData" THEN {last.reads[i] : i \in DOMAIN last.reads} ELSE {}

\* the read r returned a record and found an override that was still in
\* force
ActiveRead(r) ==
    /\ ~r.raised /\ ~r.skip
    /\ r.pre # NoOverride
    /\ (r.pre.stop_at = None \/ r.pre.stop_at > r.at)

\* the read r posted the offset-set command for the override it found
ReissuedIn(r) == \E i \in CmdAtOf(r) : IsOffsetSetCmd(r.log[i], r.c, r.pre.temperature)

\* in the read r the device target parses, differs from the override
\* temperature, and last_set is more than 300 s old
ReissueDueIn(r) ==
    /\ r.dev.target # None
    /\ r.dev.target # r.pre.temperature
    /\ r.at - r.pre.last_set > TEMPERATURE_OVERRIDE_CHECK_DELAY

\* C22 as stated, its last part: the first read made more than 300 s after
\* the last attempt, the device target still differing from the override
\* temperature, re-issues the command.
C22_AsStated ==
    \A r \in PollReads : (ActiveRead(r) /\ ReissueDueIn(r)) => ReissuedIn(r)

\* the override of circuit c is in force and has no stop time
Indefinite(c) == c \in DOMAIN overrides /\ overrides[c].stop_at = None

\* the read r re-issued the offset-set command and got status 200
ReissuedOkIn(r) ==
    /\ ActiveRead(r)
    /\ \E i \in CmdAtOf(r) : IsOffsetSetCmd(r.log[i], r.c, r.pre.temperature) /\ r.log[i].ok

\* the last update read circuit c, re-issued the command and got status 200
ReissuedOk(c) == \E r \in PollReads : r.c = c /\ ReissuedOkIn(r)

\* what each read of an unexpired override does
ReissueStep ==
    \A r \in PollReads :
        ActiveRead(r) =>
            /\ ReissuedIn(r) => r.at - r.pre.last_set > TEMPERATURE_OVERRIDE_CHECK_DELAY
            /\ Cardinality(AttemptAtOf(r)) <= 1
            /\ (ReissueDueIn(r) /\ r.dev.user_offset # None) =>
                  /\ AttemptAtOf(r) # {}
                  /\ \A i \in CmdAtOf(r) : IsOffsetSetCmd(r.log[i], r.c, r.pre.temperature)
            /\ (ReissueDueIn(r) /\ last.alone) => EntryOf(overrides, r.c).last_set = r.at
            /\ ~ReissueDueIn(r) =>
                  (AttemptAtOf(r) = {} /\ (last.alone => EntryOf(overrides, r.c) = r.pre))

\* the clock, which stops at LiveMaxTime, has room for one more re-issue:
\* the delay and the update that follows it
RoomToReissue == now + TEMPERATURE_OVERRIDE_CHECK_DELAY + UPDATE_INTERVAL <= LiveMaxTime

\* C22, amended: while an override is unexpired and the device target
\* differs from its temperature, a command that was dropped or refused is
\* re-issued by a later read, provided reads go on, the device's fields
\* parse from some time on and no caller replaces the override.  A read
\* re-issues only when more than 300 s have passed since last_set, and
\* stamps last_set, so there is at most one re-issue per 300 s; the first
\* read made more than 300 s after last_set re-issues when the user offset
\* parses too, and otherwise stamps last_set without sending.  The updates
\* are the coordinator's, and callers' operations may span them.
C22_SelfHeal ==
    /\ []ReissueStep
    /\ \A c \in Managed, k \in 0..LiveMaxSets :
          (Indefinite(c) /\ Holds(c, k) /\ RoomToReissue)
             ~> (ReissuedOk(c) \/ ~Holds(c, k))

\* reached: a re-issue went through on a read after an earlier re-issue
\* attempt of the same override
C22_Witness ==
    \E r \in PollReads :
        /\ r.c \in Managed /\ ReissuedOkIn(r)
        /\ r.pre.last_set > r.pre.created_at
        /\ EntryOf(overrides, r.c).last_set = r.at


\* ---- C23 ----

\* the last operation constructed a client
Constructed == last.op = "__init__"

\* C23 as stated: a client constructed from the serialized form of an
\* override map holds overrides with equal temperature, created_at, stop_at,
\* disabled_at and last_set.
C23_AsStated ==
    (Constructed /\ last.persisted = serializeAll(last.preMap)) =>
        /\ ~last.raised
        /\ overrides = last.preMap

\* ---- C24 ----

\* C24 as stated: a construction from a store in which an entry is
\* malformed does not fail and loads every well-formed entry.
C24_AsStated ==
    Constructed =>
        /\ ~last.raised
        /\ \A k \in DOMAIN last.persisted :
              Accepted(last.persisted[k]) =>
                 /\ k \in DOMAIN overrides
                 /\ overrides[k].temperature = last.persisted[k].temperature


\* ---- C25 ----

\* the arguments of the last encoding operation break a rule of the protocol
\* fields: an id that does not fit two digits, a first timetable entry that
\* is not for 00:00, a gap in the day list, a shutter id outside 0..32, a
\* position or tilt outside 0..100
FitsTwoDigits(n) == 0 <= n /\ n <= 99
BadArguments ==
    \/ /\ last.op = "setSchedule"
       /\ \/ ~FitsTwoDigits(last.arg.schedule_id)
          \/ last.arg.timetable[1].time # "00:00"
    \/ /\ last.op = "setCircuitSchedules"
       /\ \/ ~FitsTwoDigits(last.arg.circuit_id)
          \/ HasGap(last.arg.day_schedules)
    \/ /\ last.op = "saveManualChange"
       /\ \/ last.arg.shutter_id < 0 \/ last.arg.shutter_id > 32
          \/ last.arg.pos < 0 \/ last.arg.pos > 100
          \/ last.arg.tilt < 0 \/ last.arg.tilt > 100

\* C25 as stated: an encoding operation called with such arguments sends
\* nothing, not even a login.
C25_AsStated ==
    BadArguments => (last.net.logins = 0 /\ last.net.posts = 0)


\* ---- C26 ----

\* C26 as stated: the decoding of a /wholeRoom response raises exactly when
\* the response does not match the pattern; when it matches, a record is
\* returned whatever fields fail to parse, the enabled flag included.
C26_AsStated ==
    last.op = "getCircuit" =>
        /\ ~last.arg.matched => last.net.raised = "Exception"
        /\ last.arg.matched => last.net.raised = "none"


\* ---- C27 ----

\* the last operation was setSummerModeAssignments and it posted a vector
PostedAssignments ==
    last.op = "setSummerModeAssignments" /\ last.net.param # <<>>

\* circuit i (counted from 0) is one of those named in the call
Named(i) == \E k \in 1..Len(last.arg.circuits) : last.arg.circuits[k] = i

\* C27 as stated: the bitstring posted has the length of the controller's
\* current assignment vector, holds value at every index named in circuits
\* and the controller's current flag at every other index.
C27_AsStated ==
    PostedAssignments =>
        /\ Len(last.net.param) = Len(last.preDevice.summer)
        /\ \A i \in 1..Len(last.net.param) :
              last.net.param[i] =
                 Digit(IF IF Named(i - 1) THEN last.arg.value
                          ELSE last.preDevice.summer[i]
                       THEN 1 ELSE 0)


\* ---- C28 ----

\* a setManualTemp call whose form field was posted
PostedManualTemp == last.op = "setManualTemp" /\ last.net.posts = 1

\* the offset of that call, in hundredths of a degree
Offset == last.arg.new_target - last.arg.current_target

\* t is the magnitude of the offset in tenths, cut toward zero
CutTenths(t) ==
    LET m == IF Offset < 0 THEN -Offset ELSE Offset
    IN  t * 10 <= m /\ m < (t + 1) * 10

\* the six characters the claim describes, for t tenths
SixCharacters(t) ==
    <<Digit(last.arg.circuit_id \div 10), Digit(last.arg.circuit_id % 10),
      IF Offset < 0 THEN "-" ELSE "0",
      Digit(t \div 100), Digit((t \div 10) % 10), Digit(t % 10)>>

\* the circuit id has at most two digits and the offset is under 100 degrees
FitsSixCharacters ==
    /\ last.arg.circuit_id \in 0..99
    /\ Offset \in -9999..9999

\* C28 as stated: every payload setManualTemp posts is exactly 6 characters:
\* the two-digit circuit id, "-" for a negative offset and "0" otherwise, and
\* three digits holding the magnitude of the offset new_target -
\* current_target in tenths of a degree, cut toward zero.
C28_AsStated ==
    PostedManualTemp =>
        /\ Len(last.net.param) = 6
        /\ FitsSixCharacters =>
              \E t \in 0..999 : CutTenths(t) /\ last.net.param = SixCharacters(t)


\* ---- C29 ----

\* a getCircuitSchedules call that returned
ReturnedSchedules == last.op = "getCircuitSchedules" /\ last.net.raised = "none"

\* k slots precede the first "-1" slot of the response
PrefixLength(k) ==
    /\ \A i \in 1..k : last.arg.day_schedules[i] # -1
    /\ k < Len(last.arg.day_schedules) => last.arg.day_schedules[k + 1] = -1

\* v is the slot x reduced to its low 5 bits
LowFiveBits(v, x) == v \in 0..31 /\ \E q \in -4..4 : x = 32 * q + v

\* bit 5 of the slot x is set
BitFive(x) == (x \div 32) % 2 = 1

\* C29: what getCircuitSchedules returns as day_schedules is exactly the
\* slots that precede the first -1 slot, each reduced to its low 5 bits, so
\* nothing that follows a gap is returned; current_day is the 1-based
\* position of the slot of that prefix whose bit 5 is set (the last one when
\* several are), and None when no slot of the prefix has it set.
C29_ContiguousPrefix ==
    ReturnedSchedules =>
        \E k \in 0..Len(last.arg.day_schedules) :
            /\ PrefixLength(k)
            /\ Len(last.net.ret.day_schedules) = k
            /\ \A i \in 1..k :
                  LowFiveBits(last.net.ret.day_schedules[i], last.arg.day_schedules[i])
            /\ IF \E i \in 1..k : BitFive(last.arg.day_schedules[i])
               THEN /\ last.net.ret.current_day \in 1..k
                    /\ BitFive(last.arg.day_schedules[last.net.ret.current_day])
                    /\ \A i \in (last.net.ret.current_day + 1)..k :
                          ~BitFive(last.arg.day_schedules[i])
               ELSE last.net.ret.current_day = None

\* C29 witness: a response with a gap followed by a schedule was decoded to
\* the entries before the gap, one of them flagged as the current day.
C29_Witness ==
    /\ ReturnedSchedules
    /\ \E i \in 1..Len(last.arg.day_schedules) :
          /\ last.arg.day_schedules[i] = -1
          /\ \E j \in (i + 1)..Len(last.arg.day_schedules) :
                last.arg.day_schedules[j] \notin {-1, None}
    /\ Len(last.net.ret.day_schedules) >= 1
    /\ last.net.ret.current_day # None


\* ---- C30 ----

\* a string was hashed for two logins
Hashed == last.op = "bmr_hash"

\* C30 as stated: for every input string, the hashes of two different days
\* of the month differ.
C30_AsStated ==
    Hashed /\ last.arg.day # last.arg.other_day => last.net.hash # last.net.other

\* C30, amended: the hash depends on the input string and the day of the
\* month only, so two logins of the same day send the same hash; for every
\* input string that is not empty the hashes of two different days differ,
\* while the empty string is hashed to the empty string on every day.
C30_DaySeeded ==
    Hashed =>
        /\ last.arg.day = last.arg.other_day => last.net.hash = last.net.other
        /\ last.arg.day # last.arg.other_day /\ last.arg.value # <<>>
              => last.net.hash # last.net.other
        /\ last.arg.value = <<>> => last.net.hash = <<>> /\ last.net.other = <<>>

\* C30 witness: a string of two characters was hashed on two different days
\* to two different strings of four characters.
C30_Witness ==
    /\ Hashed
    /\ Len(last.arg.value) = 2
    /\ last.arg.day # last.arg.other_day
    /\ Len(last.net.hash) = 4
    /\ Len(last.net.other) = 4
    /\ last.net.hash # last.net.other


\* ---- C31 ----

\* a setSummerMode call whose form field was posted
PostedSummerMode == last.op = "setSummerMode" /\ last.net.posts = 1

\* a getSummerMode call that asked the controller and returned
AskedSummerMode ==
    /\ last.op = "getSummerMode"
    /\ ~last.net.hit
    /\ last.net.raised = "none"

\* C31: setSummerMode(v) posts "0" exactly when v is true; a getSummerMode
\* call that asks the controller returns true exactly when the answer is the
\* number 0; and when the controller answers with the value it stored from
\* the last setSummerMode(v) it accepted, that call returns v.
C31_InvertedBothWays ==
    /\ PostedSummerMode =>
          (last.net.param = <<"0">>) = last.arg.value
    /\ PostedSummerMode =>
          last.net.param \in {<<"0">>, <<"1">>}
    /\ AskedSummerMode =>
          last.net.value = (last.answer.body = "data" /\ last.answer.v = 0)
    /\ AskedSummerMode /\ last.answer.body = "data" =>
          last.net.value = device.asked

\* C31 witness: after the controller stored a setSummerMode(True), a
\* getSummerMode call asked the controller, was answered 0 and returned true.
C31_Witness ==
    /\ AskedSummerMode
    /\ device.asked
    /\ last.answer.body = "data"
    /\ last.answer.v = 0
    /\ last.net.value


\* ---- C32 ----

\* a /wholeRoom text was decoded and a result returned
DecodedRoom == last.op = "wholeRoom" /\ last.net.raised = "none"

\* the characters of the text from position a to position b, positions
\* counted from 0
At(a, b) == SubSeq(last.arg, a + 1, b + 1)

\* name is the text t with the blanks at its end removed
RightTrimmed(name, t) ==
    /\ Len(name) <= Len(t)
    /\ name = SubSeq(t, 1, Len(name))
    /\ \A i \in (Len(name) + 1)..Len(t) : t[i] = " "
    /\ name # <<>> => name[Len(name)] # " "

\* C32: getCircuit decodes the response by fixed position: character 0
\* enabled, 1-13 the name (right-trimmed), 14-18 temperature, 22-26 device
\* target, 27-31 user offset, 32-35 max offset, 36 heating, 39-41 warning,
\* 42 low mode, 43 summer mode, 44 cooling; the example response of the
\* specification decodes to enabled = true, name = "Pokoj", temperature
\* 21.7, target 12.0, user offset 0.0.
C32_ByPosition ==
    DecodedRoom =>
        /\ last.net.ret.enabled = (toInt(At(0, 0)) # 0)
        /\ RightTrimmed(last.net.name, At(1, 13))
        /\ last.net.ret.temperature = toFloat(At(14, 18))
        /\ last.net.ret.target_temperature = toFloat(At(22, 26))
        /\ last.net.ret.user_offset = toFloat(At(27, 31))
        /\ last.net.ret.max_offset = toFloat(At(32, 35))
        /\ last.net.ret.heating = (toInt(At(36, 36)) \notin {None, 0})
        /\ last.net.ret.warning = (IF toInt(At(39, 41)) = None THEN 0 ELSE toInt(At(39, 41)))
        /\ last.net.ret.low_mode = (toInt(At(42, 42)) \notin {None, 0})
        /\ last.net.ret.summer_mode = (toInt(At(43, 43)) \notin {None, 0})
        /\ last.net.ret.cooling = (toInt(At(44, 44)) \notin {None, 0})
        /\ last.arg = SpecExample =>
              /\ last.net.ret.enabled
              /\ last.net.name = <<"P", "o", "k", "o", "j">>
              /\ last.net.ret.temperature = 217
              /\ last.net.ret.target_temperature = 120
              /\ last.net.ret.user_offset = 0

\* C32 witness: the example response of the specification was decoded, the
\* name coming out as "Pokoj" and the temperature as 21.7.
C32_Witness ==
    /\ DecodedRoom
    /\ last.arg = SpecExample
    /\ last.net.name = <<"P", "o", "k", "o", "j">>
    /\ last.net.ret.temperature = 217


\* ---- C33 ----

\* the last operation reconciled an expired override with a zero-offset
\* command that the controller accepted
ZeroAccepted ==
    /\ last.op \in {"getCircuit", "removeTemperatureOverride"}
    /\ HadOverride
    /\ \E i \in CmdAt : IsZeroCmd(last.log[i], last.c) /\ last.log[i].ok

\* C33 as stated: when reads of a circuit overlap while its override is
\* expired and not yet disabled, only one zero-offset command that the
\* controller accepts is sent for that override: a read whose zero-offset
\* command was accepted does not find, as the command returns, that another
\* read has marked the same override disabled in the meantime.
C33_AsStated ==
    ZeroAccepted =>
        ~(/\ last.found.created_at = last.pre.created_at
          /\ last.found.disabled_at # None)

\* ---- C34 ----

\* C34 as stated: an override that setTemperatureOverride put in place of
\* another while a read was suspended in the zero-offset command is not
\* marked disabled: no override that has not expired carries disabled_at.
C34_AsStated ==
    \A c \in Managed \cap DOMAIN overrides :
        IsActive(overrides[c], now) => overrides[c].disabled_at = None

\* ---- C35 ----

\* coroutine slot t is suspended in the re-issue of circuit c's command
InReissue(t, c) ==
    /\ loop.run[t].pc = "cmd"
    /\ loop.run[t].why = "reissue"
    /\ loop.run[t].c = c

\* C35: of the reads of a circuit that overlap while its override is
\* unexpired, differs from the device target and is past the 300 s delay,
\* only one re-issues the command: last_set is stamped before the read
\* suspends, so two reads suspended in the re-issue of one circuit at once
\* have decided it more than 300 s apart, and a read that re-issues found
\* last_set more than 300 s old.
C35_OneReissue ==
    /\ \A t \in TaskIds, u \in TaskIds, c \in Circuits :
          (t # u /\ InReissue(t, c) /\ InReissue(u, c)) =>
              \/ loop.run[t].seen > loop.run[u].seen + TEMPERATURE_OVERRIDE_CHECK_DELAY
              \/ loop.run[u].seen > loop.run[t].seen + TEMPERATURE_OVERRIDE_CHECK_DELAY
    /\ (CheckedRead /\ WasActive /\ AttemptAt # {}) =>
          last.at - last.pre.last_set > TEMPERATURE_OVERRIDE_CHECK_DELAY

\* C35 witness: one read is suspended in the re-issue it decided at this
\* instant, and an overlapping read that found the device target differing
\* from the override has ended without sending anything.
C35_Witness ==
    /\ CheckedRead /\ WasActive /\ ~last.alone
    /\ last.dev.target # last.pre.temperature
    /\ last.at = now
    /\ AttemptAt = {}
    /\ \E t \in TaskIds :
          /\ InReissue(t, last.c)
          /\ loop.run[t].seen = now
          /\ last.pre.last_set = now


\* ---- C36 ----

\* a setSummerModeAssignments call that posted its vector and failed: the
\* controller answered with a status other than 200 or without "true"
FailedAssignments ==
    /\ PostedAssignments
    /\ ~(last.answer.status = 200 /\ last.answer.body = "data" /\ last.answer.v = 1)

\* the vector the call got from getSummerModeAssignments: the cached one
\* when the entry was fresh, the controller's otherwise
VectorRead == IF last.hit THEN last.pre.value ELSE last.preDevice.summer

\* C36 as stated: after a setSummerModeAssignments call that failed, the
\* cached assignment vector is the one that was read, so a
\* getSummerModeAssignments call within the TTL returns it.
C36_AsStated ==
    FailedAssignments =>
        cache[CacheKey("getSummerModeAssignments", None)].value = VectorRead


\* ---- C37 ----

\* the integration was set up from a store that holds entries as
\* serialize() writes them
SetUpFromSaved ==
    /\ last.op = "async_setup_entry"
    /\ \A k \in DOMAIN last.persisted : Accepted(last.persisted[k])

\* C37 as stated: after setup every override persisted before the restart
\* is in the client's override map under its circuit id, and the client
\* holds the store its later changes are saved to.
C37_AsStated ==
    SetUpFromSaved =>
        /\ last.failure = "none"
        /\ \A k \in DOMAIN last.persisted :
              /\ k \in DOMAIN overrides
              /\ serialize(overrides[k]) = last.persisted[k]
        /\ hasStore


\* ---- C38 ----

\* an override's offset command was posted after a read whose target and
\* user-offset fields both parsed
PostedOverrideTemp ==
    /\ last.op = "overrideTemp"
    /\ last.net.posts = 1
    /\ last.arg.target # None
    /\ last.arg.user_offset # None

\* the offset posted, in tenths: the digits after the sign, negated after "-"
PostedOffset ==
    LET v == digitsValue(SubSeq(last.net.param, 4, Len(last.net.param)))
    IN  IF last.net.param[3] = "-" THEN -v ELSE v

\* the temperature the controller has scheduled: the target it reports less
\* the user offset it reports
ScheduledByDevice == last.arg.target - last.arg.user_offset

\* C38 as stated: the offset posted by setTemperatureOverride and by a
\* re-issue is the override temperature minus the scheduled temperature, so
\* the scheduled temperature plus the offset is the override temperature.
C38_AsStated ==
    PostedOverrideTemp =>
        ScheduledByDevice + PostedOffset = last.arg.temperature


\* ---- C39 ----

\* async_set_hvac_mode switched a circuit to a mode other than OFF while the
\* controller had summer mode on (0 on the wire), and the controller accepted
\* what the handler posted
SwitchedOutOfOff ==
    /\ last.op = "async_set_hvac_mode"
    /\ last.arg.hvac_mode # "off"
    /\ last.preDevice.mode = 0
    /\ ~last.raised
    /\ last.returned

\* the vector before the handler, with the circuit's bit at 0
WithoutCircuit == [last.preDevice.summer EXCEPT ![last.arg.idx + 1] = FALSE]

\* C39 as stated: the circuit is removed from the summer-mode assignments
\* (its bit becomes 0, the others unchanged), and summer mode is turned off
\* exactly when no circuit remains assigned.
C39_AsStated ==
    SwitchedOutOfOff =>
        /\ device.summer = WithoutCircuit
        /\ device.mode = 1 <=> ~any(device.summer)


====
